---- MODULE Spec2Model ----
(***************************************************************************)
(* A model of the ED Orrery: the body records loaded by                    *)
(* Orrery.process_api_data, the per-frame recompute of Orrery.update, the  *)
(* focus (orbit centre) handling, and the orbit mathematics of physics.py. *)
(*                                                                         *)
(* Numbers.  The program computes with floating point and trigonometry.    *)
(* The model computes exactly, on the grid where that is possible:         *)
(*   - angles are whole quarter turns (0, 90, 180, 270 degrees), where     *)
(*     sine and cosine are -1, 0 or 1;                                     *)
(*   - an eccentricity is a whole number of hundredths;                    *)
(*   - lengths (AU) are integers, chosen so that every quotient the code   *)
(*     forms on the grid is a whole number;                                *)
(*   - time is a whole number of days.                                     *)
(* A Python value that may be None or of the wrong type is a tagged        *)
(* record: [tag |-> "none"], [tag |-> "str"], [tag |-> "num", val |-> n].  *)
(***************************************************************************)
EXTENDS Integers, Sequences, FiniteSets, TLC

\* ------------------------------------------------------------------------
\* Python values
\* ------------------------------------------------------------------------

\* None, where the other values are integers (a bodyId, a parent id).
None == -1

\* An orbital-element field of a record: absent (None), a number, or a
\* value that is not a number (a string).
NoneVal == [tag |-> "none"]
StrVal == [tag |-> "str"]
Num(n) == [tag |-> "num", val |-> n]

IsNone(v) == v.tag = "none"
\* isinstance(v, (int, float))
IsNumber(v) == v.tag = "num"

\* abs
Abs(x) == IF x < 0 THEN -x ELSE x

\* ------------------------------------------------------------------------
\* Vectors (np.array of 3 components)
\* ------------------------------------------------------------------------

Zero3 == <<0, 0, 0>>
VAdd(u, v) == <<u[1] + v[1], u[2] + v[2], u[3] + v[3]>>
VSub(u, v) == <<u[1] - v[1], u[2] - v[2], u[3] - v[3]>>

\* ------------------------------------------------------------------------
\* Angles.  np.radians turns degrees into radians; the model's radians are
\* counted in quarter turns (pi/2), so 2*pi is 4.
\* ------------------------------------------------------------------------

TwoPi == 4
Pi == 2
GridDegrees == {0, 90, 180, 270}
Radians(deg) == deg \div 90

Cos(q) ==
  CASE q % TwoPi = 0 -> 1
    [] q % TwoPi = 1 -> 0
    [] q % TwoPi = 2 -> -1
    [] q % TwoPi = 3 -> 0

Sin(q) ==
  CASE q % TwoPi = 0 -> 0
    [] q % TwoPi = 1 -> 1
    [] q % TwoPi = 2 -> 0
    [] q % TwoPi = 3 -> -1

\* ------------------------------------------------------------------------
\* physics.solve_kepler_equation
\* ------------------------------------------------------------------------

\* Eccentricities are hundredths: 80 is 0.8, 100 is 1.
EccOne == 100
EccHighStart == 80
MaxIterations == 100

\* One Newton-Raphson run from iterate E with `left` iterations to go.
\* f(E) = E - e sin E - M and f'(E) = 1 - e cos E.  On the grid e sin E is
\* 0 (the model only solves where e = 0 or sin E = 0), so f is E - M, and
\* f' is a whole number of hundredths, below 1e-10 in size only when 0.
RECURSIVE NewtonLoop(_, _, _, _)
NewtonLoop(E, M, ecc, left) ==
  IF left = 0 THEN E
  ELSE LET f_E == E - M
           fp_E == EccOne - ecc * Cos(E)
       IN IF fp_E = 0 THEN E
          ELSE LET delta_E == (EccOne * f_E) \div fp_E
               IN IF delta_E = 0 THEN E - delta_E
                  ELSE NewtonLoop(E - delta_E, M, ecc, left - 1)

solve_kepler_equation(M, ecc) ==
  NewtonLoop(IF ecc < EccHighStart THEN M ELSE Pi, M, ecc, MaxIterations)

\* ------------------------------------------------------------------------
\* The rotation of a point (xp, yp, 0) of the orbital plane into the
\* parent's frame: argument of periapsis, inclination, ascending node.
\* ------------------------------------------------------------------------

Rotate3(xp, yp, i, omega, Omega) ==
  << xp * (Cos(omega) * Cos(Omega) - Sin(omega) * Sin(Omega) * Cos(i))
     - yp * (Sin(omega) * Cos(Omega) + Cos(omega) * Sin(Omega) * Cos(i)),
     xp * (Cos(omega) * Sin(Omega) + Sin(omega) * Cos(Omega) * Cos(i))
     + yp * (Cos(omega) * Cos(Omega) * Cos(i) - Sin(omega) * Sin(Omega)),
     xp * (Sin(omega) * Sin(i)) + yp * (Cos(omega) * Sin(i)) >>

\* ------------------------------------------------------------------------
\* physics.calculate_position_at_time
\* ------------------------------------------------------------------------

\* An epoch timestamp string: its format and the day it names.  The three
\* accepted formats are "TZ" (...T...Z), "plus" (date time+offset) and
\* "iso"; any other string does not parse and the query time is used.
EpochStr(fmt, day) == [tag |-> "str", fmt |-> fmt, day |-> day]
\* A faulty variant of ParseEpoch: a string that does not parse names day 0.
ParseEpochOrZero(epoch, current_time) ==
  IF epoch.tag = "str" /\ epoch.fmt \in {"TZ", "plus", "iso"}
  THEN epoch.day ELSE 0

ParseEpoch(epoch, current_time) ==
  IF epoch.tag = "str" /\ epoch.fmt \in {"TZ", "plus", "iso"}
  THEN epoch.day ELSE current_time

\* The result of a call: a position, or an exception raised.
Pos(v) == [kind |-> "pos", v |-> v]
Raised == [kind |-> "raise"]

\* atan2(sqrt(1 - e^2) sin E, cos E - e) % 2 pi, on the grid: with e = 0 it
\* is E; with sin E = 0 and e < 1 it is 0 to the right of the focus and pi
\* to the left.
TrueAnomaly(E, ecc) ==
  IF ecc = 0 THEN E % TwoPi
  ELSE IF EccOne * Cos(E) - ecc >= 0 THEN 0 ELSE Pi

calculate_position_at_time(a, ecc, incl, node, argp, period, m0, epoch, now) ==
  IF \/ IsNone(a) \/ IsNone(ecc) \/ IsNone(incl) \/ IsNone(node)
     \/ IsNone(argp) \/ IsNone(period) \/ IsNone(m0) \/ IsNone(epoch)
     \/ (IsNumber(period) /\ period.val = 0)
  THEN Pos(Zero3)
  ELSE IF \E v \in {a, ecc, incl, node, argp, period, m0} : ~IsNumber(v)
  THEN Raised   \* np.radians, the division or the product raises TypeError
  ELSE
    LET i_rad == Radians(incl.val)
        omega_rad == Radians(argp.val)
        Omega_rad == Radians(node.val)
        M0_rad == Radians(m0.val)
        t0 == ParseEpoch(epoch, now)
        delta_t_days == now - t0
        \* n * delta_t, with n = 2 pi / period
        current_M == (M0_rad + (TwoPi * delta_t_days) \div period.val) % TwoPi
        E_rad == solve_kepler_equation(current_M, ecc.val)
        nu == TrueAnomaly(E_rad, ecc.val)
        \* a (1 - e cos E)
        r_au == (a.val * (EccOne - ecc.val * Cos(E_rad))) \div EccOne
        xp == r_au * Cos(nu)
        yp == r_au * Sin(nu)
    IN Pos(Rotate3(xp, yp, i_rad, omega_rad, Omega_rad))

\* ------------------------------------------------------------------------
\* physics.calculate_orbit_points
\* ------------------------------------------------------------------------

\* A faulty variant of Linspace: the end point 2 pi is left out.
LinspaceOpen(num_points, k) == (TwoPi * (k - 1)) \div num_points

\* np.linspace(0, 2 pi, num_points)[k], k counted from 1.
Linspace(num_points, k) ==
  IF num_points = 1 THEN 0 ELSE (TwoPi * (k - 1)) \div (num_points - 1)

\* The guard of the parabolic/hyperbolic case: abs(1 - e**2) < 1e-9 and
\* e >= 1.  On hundredths 1 - e^2 is below 1e-9 in size only when it is 0.
OpenOrbitGuard(ecc) == EccOne * EccOne - ecc * ecc = 0 /\ ecc >= EccOne

\* r = a (1 - e^2) / (1 + e cos nu), then the rotation; one point per
\* sampled true anomaly.
OrbitPoint(a, ecc, i, omega, Omega, nu) ==
  LET r == (a * (EccOne * EccOne - ecc * ecc))
             \div (EccOne * (EccOne + ecc * Cos(nu)))
  IN Rotate3(r * Cos(nu), r * Sin(nu), i, omega, Omega)

calculate_orbit_points(a, ecc, incl, node, argp, num_points) ==
  IF IsNone(a) \/ IsNone(ecc) \/ IsNone(incl) \/ IsNone(node) \/ IsNone(argp)
  THEN <<>>
  ELSE IF OpenOrbitGuard(ecc.val) THEN <<>>
  ELSE [k \in 1..num_points |->
          OrbitPoint(a.val, ecc.val, Radians(incl.val), Radians(argp.val),
                     Radians(node.val), Linspace(num_points, k))]

\* The sample counts the grid can carry: every sampled anomaly is a whole
\* quarter turn.  (The program samples 480 points at load.)
PointCounts == {0, 1, 2, 3, 5}
LoadPoints == Cardinality(GridDegrees) + 1

\* ------------------------------------------------------------------------
\* Orrery.process_api_data
\* ------------------------------------------------------------------------

\* A body record of the API: bodyId, the mainStar marker, type, parents (the
\* ancestor ids, nearest first; <<>> when the record has none) and the
\* orbital elements.  An entry None of parents is a parent dict that is
\* empty or holds null.

\* 1. Identify Main Star.  The tests of the four passes over the records.
IsMarked(r) == r.mainStar
IsStarZero(r) == r.type = "Star" /\ r.bodyId = 0
IsStar(r) == r.type = "Star"
IsZero(r) == r.bodyId = 0

\* The first index of a set of indices (the record at which a pass breaks),
\* 0 when the set is empty.
FirstWhere(S) ==
  IF S = {} THEN 0 ELSE CHOOSE k \in S : \A j \in S : k <= j

FirstMarked(recs) == FirstWhere({k \in 1..Len(recs) : IsMarked(recs[k])})
FirstStarZero(recs) == FirstWhere({k \in 1..Len(recs) : IsStarZero(recs[k])})
FirstStar(recs) == FirstWhere({k \in 1..Len(recs) : IsStar(recs[k])})
FirstZero(recs) == FirstWhere({k \in 1..Len(recs) : IsZero(recs[k])})

IdentifyMainStar(recs) ==
  IF FirstMarked(recs) # 0 THEN recs[FirstMarked(recs)].bodyId
  ELSE IF FirstStarZero(recs) # 0 THEN 0
  ELSE IF FirstStar(recs) # 0 THEN recs[FirstStar(recs)].bodyId
  ELSE IF FirstZero(recs) # 0 THEN 0
  ELSE 0   \* "CRITICAL: Main star ID could not be determined."

\* Determine Parent ID and Depth.
ParentOf(r, main_star_id) ==
  IF Len(r.parents) > 0 THEN r.parents[1]
  ELSE IF r.bodyId = main_star_id THEN None ELSE main_star_id

DepthOf(r, main_star_id) ==
  IF Len(r.parents) > 0 THEN Len(r.parents)
  ELSE IF r.bodyId = main_star_id THEN 0 ELSE 1

ShapeIsNumeric(r) ==
  /\ IsNumber(r.semiMajorAxis) /\ IsNumber(r.orbitalEccentricity)
  /\ IsNumber(r.orbitalInclination) /\ IsNumber(r.ascendingNode)
  /\ IsNumber(r.argOfPeriapsis)

\* body_data_dict
MakeBody(r, main_star_id) ==
  [ id |-> r.bodyId,
    parent_id |-> ParentOf(r, main_star_id),
    depth |-> DepthOf(r, main_star_id),
    type |-> r.type,
    semiMajorAxis |-> r.semiMajorAxis,
    orbitalEccentricity |-> r.orbitalEccentricity,
    orbitalInclination |-> r.orbitalInclination,
    ascendingNode |-> r.ascendingNode,
    argOfPeriapsis |-> r.argOfPeriapsis,
    orbitalPeriod |-> r.orbitalPeriod,
    meanAnomalyAtEpoch |-> r.meanAnomaly,
    epochTimestamp |-> r.epoch,
    current_pos_au |-> Zero3,
    orbit_center_pos_au |-> Zero3,
    orbit_path_au |->
      IF ~IsNone(r.semiMajorAxis) /\ ShapeIsNumeric(r)
      THEN calculate_orbit_points(r.semiMajorAxis, r.orbitalEccentricity,
             r.orbitalInclination, r.ascendingNode, r.argOfPeriapsis,
             LoadPoints)
      ELSE <<>> ]

\* temp_bodies.sort(key=depth): a stable sort, by insertion.
RECURSIVE InsertByDepth(_, _)
InsertByDepth(sorted, b) ==
  IF sorted = <<>> THEN <<b>>
  ELSE IF sorted[Len(sorted)].depth <= b.depth THEN Append(sorted, b)
  ELSE Append(InsertByDepth(SubSeq(sorted, 1, Len(sorted) - 1), b),
              sorted[Len(sorted)])

RECURSIVE SortByDepth(_)
SortByDepth(bodies) ==
  IF bodies = <<>> THEN <<>>
  ELSE InsertByDepth(SortByDepth(SubSeq(bodies, 1, Len(bodies) - 1)),
                     bodies[Len(bodies)])

BuildBodies(recs, main_star_id) ==
  SortByDepth([k \in 1..Len(recs) |-> MakeBody(recs[k], main_star_id)])

\* ------------------------------------------------------------------------
\* The inputs: bounded sets of record lists
\* ------------------------------------------------------------------------

MaxId == 2
MaxBodies == 2
MaxTime == 1

Ids == 0..MaxId
Times == 0..MaxTime

\* Orbital elements of a record.  All orbits are circular (e = 0), angles
\* are quarter turns, and the epoch is day 0, so a solved position is exact.
Elements(a, incl, node, argp, period, m0, epoch) ==
  [ semiMajorAxis |-> a, orbitalEccentricity |-> Num(0),
    orbitalInclination |-> incl, ascendingNode |-> node,
    argOfPeriapsis |-> argp, orbitalPeriod |-> period,
    meanAnomaly |-> m0, epoch |-> epoch ]

\* No orbit at all (a star at the origin of its frame).
NoOrbit ==
  [ semiMajorAxis |-> NoneVal, orbitalEccentricity |-> NoneVal,
    orbitalInclination |-> NoneVal, ascendingNode |-> NoneVal,
    argOfPeriapsis |-> NoneVal, orbitalPeriod |-> NoneVal,
    meanAnomaly |-> NoneVal, epoch |-> NoneVal ]
\* A circular orbit of radius a in the reference plane, a quarter turn a day.
Flat(a) ==
  Elements(Num(a), Num(0), Num(0), Num(0), Num(4), Num(0), EpochStr("TZ", 0))
\* A circular orbit tilted by 90 degrees, half a turn a day.
Tilted(a) ==
  Elements(Num(a), Num(90), Num(90), Num(0), Num(2), Num(90), EpochStr("iso", 0))
\* The period is missing, or 0: the position solve is skipped.
NoPeriod(a) ==
  Elements(Num(a), Num(0), Num(0), Num(0), NoneVal, Num(0), EpochStr("TZ", 0))
ZeroPeriod(a) ==
  Elements(Num(a), Num(0), Num(0), Num(0), Num(0), Num(0), EpochStr("TZ", 0))
\* The inclination is a string.
TextInclination(a) ==
  Elements(Num(a), StrVal, Num(0), Num(0), Num(4), Num(0), EpochStr("TZ", 0))

ElementProfiles ==
  {NoOrbit, Flat(4), Tilted(2), NoPeriod(2), ZeroPeriod(6), TextInclination(2)}

Record(id, marked, type, parents, el) ==
  [ bodyId |-> id, mainStar |-> marked, type |-> type, parents |-> parents ]
    @@ el

\* The parents lists of a record of body id: none, the nearest parent alone
\* (a body, or None for an empty parent entry), or parent and grandparent.
ParentLists(id) ==
  {<<>>, <<None>>}
    \cup {<<p>> : p \in Ids \ {id}}
    \cup UNION {{<<p, q>> : q \in Ids \ {id, p}} : p \in Ids \ {id}}

\* Hierarchy inputs: any marker, type and parents; body id moves on the
\* flat orbit of radius 4 (id + 1).
HierarchyRecordsOf(id) ==
  { Record(id, mt[1], mt[2], ps, Flat(4 * (id + 1))) :
      mt \in {<<TRUE, "Star">>, <<FALSE, "Star">>, <<FALSE, "Planet">>},
      ps \in ParentLists(id) }
HierarchyRecords == UNION {HierarchyRecordsOf(id) : id \in Ids}

DistinctIds(recs) ==
  \A j, k \in 1..Len(recs) : j # k => recs[j].bodyId # recs[k].bodyId

ListsOver(R, n) == {recs \in [1..n -> R] : DistinctIds(recs)}

HierarchyLists == UNION {ListsOver(HierarchyRecords, n) : n \in 1..MaxBodies}

\* Element inputs: a well-formed system (marked star 0 without parents, the
\* others with complete parents lists) with any element profile per body:
\* a chain 0 <- 1 <- 2 or two siblings 1, 2 under 0.
ElementLists ==
  { << Record(0, TRUE, "Star", <<>>, e0),
       Record(1, FALSE, "Planet", <<0>>, e1),
       Record(2, FALSE, "Planet", p2, e2) >> :
      e0 \in {NoOrbit, Flat(4)}, e1 \in ElementProfiles, e2 \in ElementProfiles,
      p2 \in {<<1, 0>>, <<0>>} }

RecordLists == HierarchyLists \cup ElementLists

\* ------------------------------------------------------------------------
\* The state
\* ------------------------------------------------------------------------

VARIABLES
  api_body_data,            \* the record list last handed to process_api_data
  celestial_bodies,         \* Orrery.celestial_bodies
  main_star_id,             \* Orrery.main_star_id
  orbit_center_body_id,     \* Orrery.orbit_center_body_id (None: no focus)
  current_focus_offset_au,  \* Orrery.current_focus_offset_au
  body_screen_coords,       \* the ids the last draw recorded for hit tests
  pc,                       \* where the frame is: events, update, draw, raised
  current_time_dt,          \* the query time of the running update
  next_body,                \* update: index of the body the loop is at
  body_positions,           \* update: the position map of the tick
  call,                     \* a call of a pure function: arguments, result
  camera_rotation_y,        \* Orrery.camera_rotation_y (degrees of yaw)
  drawable_objects,         \* draw: the list the last draw went through
  info_text,                \* Orrery.info_text (which message it is)
  slider_handle_pos,        \* Orrery.slider_handle_pos (pixels)
  dragging_slider,          \* Orrery.dragging_slider
  time_acceleration_factor, \* Orrery.time_acceleration_factor (eighths)
  current_time_for_orrery,  \* main: the simulated clock (1/8000 s)
  dt_ms,                    \* main: clock.tick(FPS) of the frame (ms)
  camera_rotation_x,        \* Orrery.camera_rotation_x (degrees of pitch)
  camera_zoom,              \* Orrery.camera_zoom (thousandths)
  pan_offset_x,             \* Orrery.pan_offset_x (pixels)
  pan_offset_y,             \* Orrery.pan_offset_y (pixels)
  plane_radius_au           \* Orrery.plane_radius_au (hundredths of an AU)

\* The time-shift slider and the clock of the main loop.
time_vars ==
  << slider_handle_pos, dragging_slider, time_acceleration_factor,
     current_time_for_orrery, dt_ms >>

\* The camera besides its yaw, and the radius the zoom is fitted to.
view_vars ==
  << camera_rotation_x, camera_zoom, pan_offset_x, pan_offset_y,
     plane_radius_au >>

vars ==
  << call, api_body_data, celestial_bodies, main_star_id, orbit_center_body_id,
     current_focus_offset_au, body_screen_coords, pc, current_time_dt,
     next_body, body_positions, camera_rotation_y,
     drawable_objects, info_text, time_vars, view_vars >>

BodyIds == {celestial_bodies[k].id : k \in 1..Len(celestial_bodies)}
EmptyMap == [id \in {} |-> Zero3]
\* A faulty variant of Get: the default whatever the map holds.
GetDefault(map, key, default) == default

\* dict.get(key, default)
Get(map, key, default) == IF key \in DOMAIN map THEN map[key] ELSE default

\* The slider rectangle: pygame.Rect((SCREEN_WIDTH - slider_width) // 2,
\* SCREEN_HEIGHT - 60, slider_width, 1) with slider_width SCREEN_WIDTH - 40.
SCREEN_WIDTH == 1400
slider_width == SCREEN_WIDTH - 40
SliderLeft == (SCREEN_WIDTH - slider_width) \div 2
SliderRight == SliderLeft + slider_width
SliderCenterX == SliderLeft + slider_width \div 2

\* The two messages of info_text: f"Bodies: {n} | Plane: ..." and the one
\* main sets after a search that found nothing.
BodiesMessage == "Bodies: | Plane:"
NotFoundMessage == "System not found or no data."

\* The plane radius is counted in hundredths of an AU, the zoom in
\* thousandths.
PlaneUnits == 100
ZoomUnits == 1000
DEFAULT_PLANE_RADIUS_AU == 50
SCREEN_HEIGHT == 800

\* max_sma_au_for_plane: the largest numeric semiMajorAxis among the
\* bodies of depth 1, starting from 0.0.
RECURSIVE MaxSma(_)
MaxSma(bodies) ==
  IF bodies = <<>> THEN 0
  ELSE LET body == bodies[Len(bodies)]
           rest == MaxSma(SubSeq(bodies, 1, Len(bodies) - 1))
       IN IF /\ IsNumber(body.semiMajorAxis) /\ body.depth = 1
             /\ body.semiMajorAxis.val > rest
          THEN body.semiMajorAxis.val ELSE rest

\* raw_data.get('solarRadius', 1.0) of the record a body was made from.
SolarRadius(recs, id) ==
  LET r == recs[CHOOSE k \in 1..Len(recs) : recs[k].bodyId = id]
  IN IF "solarRadius" \in DOMAIN r THEN r.solarRadius ELSE 1

\* process_api_data, its last step: 1.3 times the largest top-level orbit,
\* else 0.05 * SCALE solar radii of a star listed first, else the default.
PlaneRadius(recs, bodies) ==
  IF MaxSma(bodies) > 0 THEN (MaxSma(bodies) * 13 * PlaneUnits) \div 10
  ELSE IF Len(bodies) > 0 /\ bodies[1].type = "Star"
  THEN SolarRadius(recs, bodies[1].id) * ((5 * PlaneUnits) \div 100)
  ELSE DEFAULT_PLANE_RADIUS_AU * PlaneUnits

\* Orrery.__init__: plane_radius_au is the default unless process_api_data
\* got records to work on.
InitialPlaneRadius(recs, bodies) ==
  IF Len(recs) = 0 THEN DEFAULT_PLANE_RADIUS_AU * PlaneUnits
  ELSE PlaneRadius(recs, bodies)

\* max(0.01, zoom)
ZoomFloor == ZoomUnits \div 100
AtLeastFloor(zoom) == IF zoom < ZoomFloor THEN ZoomFloor ELSE zoom

\* A faulty variant of FitZoom: the zoom keeps the value it has.
KeepZoom(zoom, plane_radius) == zoom

\* The zoom that fits the plane to the screen, as __init__ and reset_view
\* compute it: (min(SCREEN_WIDTH, SCREEN_HEIGHT) * 10 * 50) / (radius * 20),
\* at least 0.01; 0.1 for a radius that is not positive.  The quotient is
\* taken to the thousandth below.
FitZoom(zoom, plane_radius) ==
  IF plane_radius > 0
  THEN LET target_screen_radius ==
             (IF SCREEN_WIDTH < SCREEN_HEIGHT THEN SCREEN_WIDTH
              ELSE SCREEN_HEIGHT) * 10
           denominator_is_zero == plane_radius = 0   \* plane_radius * 20
       IN IF denominator_is_zero THEN ZoomUnits
          ELSE AtLeastFloor(
                 (((target_screen_radius * 50) \div 20) * PlaneUnits * ZoomUnits)
                   \div plane_radius)
  ELSE ZoomUnits \div 10

\* Orrery.__init__: the camera, the slider and its factor; main: the clock
\* (counted from the moment the program starts).
ViewAndTimeInit ==
  /\ camera_rotation_x = 0
  /\ pan_offset_x = 0
  /\ pan_offset_y = 0
  /\ plane_radius_au = InitialPlaneRadius(api_body_data, celestial_bodies)
  /\ camera_zoom = FitZoom(0, plane_radius_au)
  /\ camera_rotation_y = 0
  /\ drawable_objects = <<>>
  /\ info_text = BodiesMessage
  /\ slider_handle_pos = SliderCenterX
  /\ dragging_slider = FALSE
  /\ time_acceleration_factor = 0
  /\ current_time_for_orrery = 0
  /\ dt_ms = 0

\* Orrery(None, ...), as main constructs it: process_api_data returns at
\* once on no data, so there are no bodies and no main star.
NoSystemLoaded ==
  /\ api_body_data = <<>>
  /\ main_star_id = None
  /\ celestial_bodies = <<>>
  /\ orbit_center_body_id = None
  /\ current_focus_offset_au = Zero3
  /\ body_screen_coords = {}
  /\ pc = "events"
  /\ current_time_dt = 0
  /\ next_body = 1
  /\ body_positions = EmptyMap
  /\ ViewAndTimeInit

\* The variables of the program, left alone by a call of a pure function.
program_vars ==
  << api_body_data, celestial_bodies, main_star_id, orbit_center_body_id,
     current_focus_offset_au, body_screen_coords, pc, current_time_dt,
     next_body, body_positions, camera_rotation_y,
     drawable_objects, info_text, time_vars, view_vars >>

\* Orrery.__init__(api_body_data): process_api_data on the records, no
\* focus, nothing drawn yet.
NoCall == [fn |-> "none"]

Init ==
  /\ call = NoCall
  /\ api_body_data \in RecordLists
  /\ main_star_id = IdentifyMainStar(api_body_data)
  /\ celestial_bodies = BuildBodies(api_body_data, main_star_id)
  /\ orbit_center_body_id = None
  /\ current_focus_offset_au = Zero3
  /\ body_screen_coords = {}
  /\ pc = "events"
  /\ current_time_dt = 0
  /\ next_body = 1
  /\ body_positions = EmptyMap
  /\ ViewAndTimeInit

\* Orrery.__init__ on a record list of a given family.
LoadedFrom(lists) ==
  /\ call = NoCall
  /\ api_body_data \in lists
  /\ main_star_id = IdentifyMainStar(api_body_data)
  /\ celestial_bodies = BuildBodies(api_body_data, main_star_id)
  /\ orbit_center_body_id = None
  /\ current_focus_offset_au = Zero3
  /\ body_screen_coords = {}
  /\ pc = "events"
  /\ current_time_dt = 0
  /\ next_body = 1
  /\ body_positions = EmptyMap
  /\ ViewAndTimeInit

\* ------------------------------------------------------------------------
\* Events between two frames
\* ------------------------------------------------------------------------

\* Orrery.handle_right_click on a body the last draw recorded.
HandleRightClick(id) ==
  /\ pc = "events"
  /\ id \in body_screen_coords
  /\ orbit_center_body_id' = id
  /\ pan_offset_x' = 0
  /\ pan_offset_y' = 0
  /\ UNCHANGED << camera_rotation_x, camera_zoom, plane_radius_au >>
  /\ UNCHANGED << camera_rotation_y, drawable_objects, info_text, time_vars >>
  /\ UNCHANGED << call, api_body_data, celestial_bodies, main_star_id,
                  current_focus_offset_au, body_screen_coords, pc,
                  current_time_dt, next_body, body_positions >>

\* Orrery.reset_view
ResetView ==
  /\ pc = "events"
  /\ camera_rotation_x' = 0
  /\ camera_rotation_y' = 0
  /\ pan_offset_x' = 0
  /\ pan_offset_y' = 0
  /\ orbit_center_body_id' = None
  /\ camera_zoom' = FitZoom(camera_zoom, plane_radius_au)
  /\ UNCHANGED << drawable_objects, info_text, time_vars, plane_radius_au >>
  /\ UNCHANGED << call, api_body_data, celestial_bodies, main_star_id,
                  current_focus_offset_au, body_screen_coords, pc,
                  current_time_dt, next_body, body_positions >>

\* ------------------------------------------------------------------------
\* Orrery.update(current_time_dt), one loop iteration per step
\* ------------------------------------------------------------------------

UpdateBegin(t) ==
  /\ pc = "events"
  /\ pc' = "update"
  /\ current_time_dt' = t
  /\ next_body' = 1
  /\ body_positions' = EmptyMap
  /\ UNCHANGED << camera_rotation_y, drawable_objects, info_text, time_vars, view_vars >>
  /\ UNCHANGED << call, api_body_data, celestial_bodies, main_star_id,
                  orbit_center_body_id, current_focus_offset_au,
                  body_screen_coords >>

\* The local position of a body: zero without a semi-major axis, else what
\* calculate_position_at_time returns (the branch for a None result gives
\* half the semi-major axis along x).
LocalPosition(body, t) ==
  IF IsNone(body.semiMajorAxis) THEN Pos(Zero3)
  ELSE LET pos == calculate_position_at_time(
                    body.semiMajorAxis, body.orbitalEccentricity,
                    body.orbitalInclination, body.ascendingNode,
                    body.argOfPeriapsis, body.orbitalPeriod,
                    body.meanAnomalyAtEpoch, body.epochTimestamp, t)
       IN IF pos.kind # "none" THEN pos
          ELSE Pos(<<body.semiMajorAxis.val \div 2, 0, 0>>)

\* A faulty variant of LoopDone: the loop is left after its first iteration (the
\* re-basing block indented into the loop body).
LoopDoneAfterFirst(i, bodies) == i > 1

\* The loop has passed the last body.
LoopDone(i, bodies) == i > Len(bodies)

\* A faulty variant of ParentPosition: the parent offset the body stored in
\* the tick before is used again.
StoredParentPosition(body, positions) == body.orbit_center_pos_au

ParentPosition(body, positions) ==
  IF body.parent_id # None THEN Get(positions, body.parent_id, Zero3)
  ELSE Zero3

UpdateBody ==
  /\ pc = "update"
  /\ ~LoopDone(next_body, celestial_bodies)
  /\ LET body == celestial_bodies[next_body]
         local == LocalPosition(body, current_time_dt)
         parent_pos == ParentPosition(body, body_positions)
     IN IF local.kind = "raise"
        THEN /\ pc' = "raised"
             /\ UNCHANGED << celestial_bodies, next_body, body_positions >>
        ELSE LET absolute_pos == VAdd(local.v, parent_pos)
             IN /\ body_positions' =
                     [id \in DOMAIN body_positions \cup {body.id} |->
                        IF id = body.id THEN absolute_pos
                        ELSE body_positions[id]]
                /\ celestial_bodies' =
                     [celestial_bodies EXCEPT
                        ![next_body].current_pos_au = absolute_pos,
                        ![next_body].orbit_center_pos_au = parent_pos]
                /\ next_body' = next_body + 1
                /\ pc' = "update"
  /\ UNCHANGED << camera_rotation_y, drawable_objects, info_text, time_vars, view_vars >>
  /\ UNCHANGED << call, api_body_data, main_star_id, orbit_center_body_id,
                  current_focus_offset_au, body_screen_coords,
                  current_time_dt >>

\* A faulty variant of RebaseBody: the points of the orbit path are moved
\* with the body.
RebaseBodyWithPath(body, center_offset) ==
  [body EXCEPT !.current_pos_au = VSub(@, center_offset),
               !.orbit_center_pos_au = VSub(@, center_offset),
               !.orbit_path_au =
                  [k \in 1..Len(@) |-> VSub(@[k], center_offset)]]

\* A faulty variant of RebaseBody: the stored parent offset is left as it was.
RebaseBodyPositionOnly(body, center_offset) ==
  [body EXCEPT !.current_pos_au = VSub(@, center_offset)]

\* Apply Orbit Center Offset if active.
RebaseBody(body, center_offset) ==
  [body EXCEPT !.current_pos_au = VSub(@, center_offset),
               !.orbit_center_pos_au = VSub(@, center_offset)]

UpdateRebase ==
  /\ pc = "update"
  /\ LoopDone(next_body, celestial_bodies)
  /\ IF orbit_center_body_id # None
     THEN LET center_offset == Get(body_positions, orbit_center_body_id, Zero3)
          IN /\ current_focus_offset_au' = center_offset
             /\ celestial_bodies' =
                  [k \in 1..Len(celestial_bodies) |->
                     RebaseBody(celestial_bodies[k], center_offset)]
     ELSE /\ current_focus_offset_au' = Zero3
          /\ UNCHANGED celestial_bodies
  /\ pc' = "draw"
  /\ UNCHANGED << camera_rotation_y, drawable_objects, info_text, time_vars, view_vars >>
  /\ UNCHANGED << call, api_body_data, main_star_id, orbit_center_body_id,
                  body_screen_coords, current_time_dt, next_body,
                  body_positions >>

\* ------------------------------------------------------------------------
\* Orrery.draw: every body is drawn and recorded for hit tests
\* ------------------------------------------------------------------------

\* x_new = x; y_new = -z; z_new = y
initial_world_rotation(p) == << p[1], -p[3], p[2] >>

\* math.cos and math.sin of the camera angles, in thousandths: the angles
\* are quarter turns, or the pitch at the limit main clamps it to, whose
\* cosine is 0.017 and whose sine rounds to 1.
TrigUnits == 1000
PitchLimit == 89
CosPitchLimit == 17
CosDeg(deg) ==
  IF Abs(deg) = PitchLimit THEN CosPitchLimit
  ELSE TrigUnits * Cos(Radians(deg))
SinDeg(deg) ==
  IF deg = PitchLimit THEN TrigUnits
  ELSE IF deg = -PitchLimit THEN -TrigUnits
  ELSE TrigUnits * Sin(Radians(deg))

\* Orrery.camera_view_rotation: pitch about x, then yaw about y.  Each
\* rotation multiplies by thousandths, so the result is in millionths.
camera_view_rotation(p, angle_x_deg, angle_y_deg) ==
  LET y_pitched == p[2] * CosDeg(angle_x_deg) - p[3] * SinDeg(angle_x_deg)
      z_pitched == p[2] * SinDeg(angle_x_deg) + p[3] * CosDeg(angle_x_deg)
      x_pitched == p[1] * TrigUnits
  IN << x_pitched * CosDeg(angle_y_deg) + z_pitched * SinDeg(angle_y_deg),
        y_pitched * TrigUnits,
        z_pitched * CosDeg(angle_y_deg) - x_pitched * SinDeg(angle_y_deg) >>

CamSpace(p, pitch, yaw) ==
  camera_view_rotation(initial_world_rotation(p), pitch, yaw)

\* A depth is a fraction n / d, d > 0 (the mean of depths in millionths).
DepthGeq(a, b) == a.n * b.d >= b.n * a.d

RECURSIVE SumZ(_)
SumZ(points) ==
  IF points = <<>> THEN 0
  ELSE SumZ(SubSeq(points, 1, Len(points) - 1)) + points[Len(points)][3]

\* {"type": "body", ...}: the depth of the body's own position.
BodyDrawable(body, pitch, yaw) ==
  [ type |-> "body", id |-> body.id,
    z_cam |-> [n |-> CamSpace(body.current_pos_au, pitch, yaw)[3], d |-> 1] ]

\* {"type": "orbit", ...}: the mean depth of the path's points, each moved
\* by the stored parent offset.
OrbitDrawable(body, pitch, yaw) ==
  LET orbit_points_cam_space ==
        [k \in 1..Len(body.orbit_path_au) |->
           CamSpace(VAdd(body.orbit_path_au[k], body.orbit_center_pos_au),
                    pitch, yaw)]
  IN [ type |-> "orbit", id |-> body.id,
       z_cam |-> [n |-> SumZ(orbit_points_cam_space),
                  d |-> Len(orbit_points_cam_space)] ]

\* The entries of the list as the loop over the bodies appends them.
RECURSIVE Collect(_, _, _)
Collect(bodies, pitch, yaw) ==
  IF bodies = <<>> THEN <<>>
  ELSE LET body == bodies[Len(bodies)]
       IN Collect(SubSeq(bodies, 1, Len(bodies) - 1), pitch, yaw)
            \o << BodyDrawable(body, pitch, yaw) >>
            \o (IF Len(body.orbit_path_au) > 0
                THEN << OrbitDrawable(body, pitch, yaw) >> ELSE <<>>)

\* list.sort(key=z_cam, reverse=True): stable, largest depth first.
RECURSIVE InsertByZ(_, _)
InsertByZ(sorted, obj) ==
  IF sorted = <<>> THEN << obj >>
  ELSE IF DepthGeq(sorted[Len(sorted)].z_cam, obj.z_cam)
  THEN Append(sorted, obj)
  ELSE Append(InsertByZ(SubSeq(sorted, 1, Len(sorted) - 1), obj),
              sorted[Len(sorted)])

RECURSIVE SortByZ(_)
SortByZ(objs) ==
  IF objs = <<>> THEN <<>>
  ELSE InsertByZ(SortByZ(SubSeq(objs, 1, Len(objs) - 1)), objs[Len(objs)])

\* A faulty variant of SortBackToFront: the list is left in the order the
\* loop built it.
LeftAsBuilt(objs) == objs

\* drawable_objects.sort(key=lambda obj: obj["z_cam"], reverse=True)
SortBackToFront(objs) == SortByZ(objs)

DrawableObjects(bodies, pitch, yaw) == SortBackToFront(Collect(bodies, pitch, yaw))

Draw ==
  /\ pc = "draw"
  /\ drawable_objects' = DrawableObjects(celestial_bodies, camera_rotation_x,
                                        camera_rotation_y)
  /\ body_screen_coords' = BodyIds
  /\ pc' = "events"
  /\ UNCHANGED << camera_rotation_y, info_text, time_vars, view_vars >>
  /\ UNCHANGED << call, api_body_data, celestial_bodies, main_star_id,
                  orbit_center_body_id, current_focus_offset_au,
                  current_time_dt, next_body, body_positions >>

Next ==
  \/ \E id \in Ids : HandleRightClick(id)
  \/ ResetView
  \/ \E t \in Times : UpdateBegin(t)
  \/ UpdateBody
  \/ UpdateRebase
  \/ Draw

Spec == Init /\ [][Next]_vars

\* ------------------------------------------------------------------------
\* The frame loop with a camera that turns: a few well-formed systems, and
\* horizontal drags of the left mouse button between two frames.
\* ------------------------------------------------------------------------

MaxYaw == 180
MouseDx == {-180, 180}

DrawLists ==
  { << Record(0, TRUE, "Star", <<>>, NoOrbit),
       Record(1, FALSE, "Planet", <<0>>, e1),
       Record(2, FALSE, "Planet", p2, e2) >> :
      e1 \in {Flat(4), Tilted(2)}, e2 \in {Flat(4), Tilted(2), NoOrbit},
      p2 \in {<<1, 0>>, <<0>>} }

InitDraw == LoadedFrom(DrawLists)

\* A faulty variant of ClampPitch: the pitch is left as the drag made it.
NoPitchClamp(pitch) == pitch

\* max(-89, min(89, camera_rotation_x))
ClampPitch(pitch) ==
  IF pitch > PitchLimit THEN PitchLimit
  ELSE IF pitch < -PitchLimit THEN -PitchLimit ELSE pitch

\* main, MOUSEMOTION while the left button drags:
\* camera_rotation_y += dx * 0.5; camera_rotation_x -= dy * 0.5, clamped.
DragCamera(dx, dy) ==
  /\ pc = "events"
  /\ camera_rotation_y' = camera_rotation_y + dx \div 2
  /\ Abs(camera_rotation_y') <= MaxYaw
  /\ camera_rotation_x' = ClampPitch(camera_rotation_x - dy \div 2)
  /\ UNCHANGED << camera_zoom, pan_offset_x, pan_offset_y, plane_radius_au >>
  /\ UNCHANGED << drawable_objects, info_text, time_vars >>
  /\ UNCHANGED << call, api_body_data, celestial_bodies, main_star_id,
                  orbit_center_body_id, current_focus_offset_au,
                  body_screen_coords, pc, current_time_dt, next_body,
                  body_positions >>

\* A drag along the x axis only.
RotateCamera(dx) == DragCamera(dx, 0)

NextDraw ==
  \/ Next
  \/ \E dx \in MouseDx : RotateCamera(dx)

SpecDraw == InitDraw /\ [][NextDraw]_vars

\* ------------------------------------------------------------------------
\* The frame loop with system loads: main calls update_system_data when a
\* search (or a click on a star of the star field) fetched a non-empty
\* record list.
\* ------------------------------------------------------------------------

\* process_api_data, 1. Identify Main Star: the marked record wins; without
\* one the later searches run only while self.main_star_id is None.
process_main_star(prior, recs) ==
  IF FirstMarked(recs) # 0 THEN recs[FirstMarked(recs)].bodyId
  ELSE IF prior # None THEN prior
  ELSE IdentifyMainStar(recs)

\* A faulty variant of ResetMainStar: the id of the old system is kept.
KeepMainStar(prior) == prior

\* self.main_star_id = None
ResetMainStar(prior) == None

\* The systems a fetch can return: a marked star 0 with a planet, a planet
\* listed before its unmarked star 0, and a marked star 2 with a planet.
ReloadLists ==
  { << Record(0, TRUE, "Star", <<>>, Flat(4)),
       Record(1, FALSE, "Planet", <<0>>, Flat(8)) >>,
    << Record(1, FALSE, "Planet", <<0>>, Flat(8)),
       Record(0, FALSE, "Star", <<>>, Flat(4)) >>,
    << Record(2, TRUE, "Star", <<>>, Flat(12)),
       Record(1, FALSE, "Planet", <<2>>, Flat(8)) >> }

InitReload == LoadedFrom(ReloadLists)

\* Orrery.update_system_data(api_body_data, ...): what it assigns.
SystemDataUpdated(recs) ==
  /\ api_body_data' = recs
  /\ main_star_id' = process_main_star(ResetMainStar(main_star_id), recs)
  /\ celestial_bodies' = BuildBodies(recs, main_star_id')
  /\ orbit_center_body_id' = None
  /\ current_focus_offset_au' = Zero3
  /\ info_text' = BodiesMessage
  /\ plane_radius_au' = PlaneRadius(recs, celestial_bodies')
  /\ UNCHANGED << camera_rotation_x, camera_zoom, pan_offset_x, pan_offset_y >>
  /\ UNCHANGED << camera_rotation_y, drawable_objects, time_vars >>
  /\ UNCHANGED << body_screen_coords, pc, current_time_dt, next_body,
                  body_positions >>

\* main: a fetch gave a non-empty record list and update_system_data runs.
UpdateSystemData(recs) ==
  /\ pc = "events"
  /\ Len(recs) > 0
  /\ SystemDataUpdated(recs)
  /\ UNCHANGED call

NextReload ==
  \/ Next
  \/ \E recs \in ReloadLists : UpdateSystemData(recs)

SpecReload == InitReload /\ [][NextReload]_vars

\* ------------------------------------------------------------------------
\* api_client.fetch_system_data and the two handlers of main that call it.
\* The replies of the two requests are the environment's choice.
\* ------------------------------------------------------------------------

\* The search request raises (HTTP error, no connection, timeout) or finds
\* no system; the dump request raises, or its JSON has no 'bodies', or it
\* has them (inside 'system' or at the top level; the list may be empty).
FetchReplies ==
  {[search |-> r, dump |-> "none", bodies |-> <<>>] :
      r \in {"http_error", "connection_error", "timeout", "no_match"}}
    \cup {[search |-> "found", dump |-> d, bodies |-> <<>>] :
            d \in {"http_error", "no_bodies", "bodies_at_top"}}
    \cup {[search |-> "found", dump |-> d, bodies |-> recs] :
            d \in {"bodies_in_system", "bodies_at_top"}, recs \in ReloadLists}

\* What fetch_system_data returns: the empty list [] is the empty tuple, a
\* pair (bodies, coords) is a tuple of two.
fetch_system_data(system_name_input, reply) ==
  IF system_name_input = "" THEN <<>>
  ELSE IF reply.search \in {"http_error", "connection_error", "timeout"}
  THEN <<>>
  ELSE IF reply.search = "no_match" THEN <<>>
  ELSE IF reply.dump = "http_error" THEN <<>>
  ELSE IF reply.dump \in {"bodies_in_system", "bodies_at_top"}
  THEN << reply.bodies, "coords" >>
  ELSE << <<>>, "origin" >>

\* new_body_data, system_coords = fetch_system_data(...): the assignment
\* raises ValueError unless the value has exactly two items.
Unpacks(fetched) == Len(fetched) = 2

SystemNames == {"", "Sol"}

\* main, ui_action == "SEARCH_SYSTEM" (by "search") and action_type ==
\* "LOAD_SYSTEM" (by "star"): fetch, unpack, then load or report.
FetchAndLoad(by, system_to_find, reply) ==
  /\ pc = "events"
  /\ system_to_find # ""
  /\ LET fetched == fetch_system_data(system_to_find, reply)
     IN /\ call' = [fn |-> "fetch_system_data", by |-> by, args |-> reply,
                    done |-> TRUE, result |-> fetched]
        /\ IF ~Unpacks(fetched)
           THEN /\ pc' = "raised"
                /\ UNCHANGED << api_body_data, celestial_bodies, main_star_id,
                                orbit_center_body_id, current_focus_offset_au,
                                body_screen_coords, current_time_dt, next_body,
                                body_positions, camera_rotation_y,
                                drawable_objects, info_text, time_vars, view_vars >>
           ELSE IF Len(fetched) > 0 /\ fetched[1] # <<>>
           THEN SystemDataUpdated(fetched[1])
           ELSE /\ info_text' = IF by = "search" THEN NotFoundMessage
                                ELSE info_text
                /\ UNCHANGED << api_body_data, celestial_bodies, main_star_id,
                                orbit_center_body_id, current_focus_offset_au,
                                body_screen_coords, pc, current_time_dt,
                                next_body, body_positions, camera_rotation_y,
                                drawable_objects, time_vars, view_vars >>

Search(system_to_find, reply) == FetchAndLoad("search", system_to_find, reply)
NavigateToStar(star_name, reply) == FetchAndLoad("star", star_name, reply)

InitSearch == LoadedFrom(ReloadLists)

NextSearch ==
  \/ Next
  \/ \E name \in SystemNames, reply \in FetchReplies : Search(name, reply)
  \/ \E name \in SystemNames, reply \in FetchReplies :
       NavigateToStar(name, reply)

SpecSearch == InitSearch /\ [][NextSearch]_vars

\* ------------------------------------------------------------------------
\* The frame loop with the whole camera: drags of the left button that
\* turn and tilt it, the scroll wheel, drags of the middle button, resets
\* of the view and loads of systems of very different sizes.
\* ------------------------------------------------------------------------

MaxZoom == 12
MaxPan == 100
MouseDrags == { << 180, 178 >>, << -180, -178 >> }
PanDrags == { << 100, -50 >>, << -100, 50 >> }

\* A record of a star that carries a solarRadius.
StarOfRadius(id, solarRadius) ==
  Record(id, TRUE, "Star", <<>>, NoOrbit) @@ [solarRadius |-> solarRadius]

\* A star with a planet, a star of radius 0, a star so large that the
\* fitted zoom falls below its floor and one a little smaller.
ViewLists ==
  { << Record(0, TRUE, "Star", <<>>, NoOrbit),
       Record(1, FALSE, "Planet", <<0>>, Flat(4)) >>,
    << StarOfRadius(0, 0) >>,
    << StarOfRadius(2, 50 * 1000 * 1000) >>,
    << StarOfRadius(1, 33 * 1000 * 1000) >> }

InitView == LoadedFrom(ViewLists)

\* main, MOUSEBUTTONDOWN of button 4: camera_zoom *= 1.1
ScrollUp ==
  /\ pc = "events"
  /\ camera_zoom <= MaxZoom
  /\ camera_zoom' = (camera_zoom * 11 + 5) \div 10
  /\ UNCHANGED << camera_rotation_x, pan_offset_x, pan_offset_y,
                  plane_radius_au >>
  /\ UNCHANGED << camera_rotation_y, drawable_objects, info_text, time_vars >>
  /\ UNCHANGED << call, api_body_data, celestial_bodies, main_star_id,
                  orbit_center_body_id, current_focus_offset_au,
                  body_screen_coords, pc, current_time_dt, next_body,
                  body_positions >>

\* main, MOUSEBUTTONDOWN of button 5: camera_zoom /= 1.1, then
\* camera_zoom = max(0.01, camera_zoom)
ScrollDown ==
  /\ pc = "events"
  /\ camera_zoom <= MaxZoom
  /\ camera_zoom' = AtLeastFloor((camera_zoom * 20 + 11) \div 22)
  /\ UNCHANGED << camera_rotation_x, pan_offset_x, pan_offset_y,
                  plane_radius_au >>
  /\ UNCHANGED << camera_rotation_y, drawable_objects, info_text, time_vars >>
  /\ UNCHANGED << call, api_body_data, celestial_bodies, main_star_id,
                  orbit_center_body_id, current_focus_offset_au,
                  body_screen_coords, pc, current_time_dt, next_body,
                  body_positions >>

\* main, MOUSEMOTION while the middle button drags:
\* pan_offset_x += mouse_dx; pan_offset_y += mouse_dy
PanView(mouse_dx, mouse_dy) ==
  /\ pc = "events"
  /\ pan_offset_x' = pan_offset_x + mouse_dx
  /\ pan_offset_y' = pan_offset_y + mouse_dy
  /\ Abs(pan_offset_x') <= MaxPan
  /\ UNCHANGED << camera_rotation_x, camera_zoom, plane_radius_au >>
  /\ UNCHANGED << camera_rotation_y, drawable_objects, info_text, time_vars >>
  /\ UNCHANGED << call, api_body_data, celestial_bodies, main_star_id,
                  orbit_center_body_id, current_focus_offset_au,
                  body_screen_coords, pc, current_time_dt, next_body,
                  body_positions >>

NextView ==
  \/ Next
  \/ \E drag \in MouseDrags : DragCamera(drag[1], drag[2])
  \/ ScrollUp
  \/ ScrollDown
  \/ \E drag \in PanDrags : PanView(drag[1], drag[2])
  \/ \E recs \in ViewLists : UpdateSystemData(recs)

SpecView == InitView /\ [][NextView]_vars

\* ------------------------------------------------------------------------
\* The frame loop over systems whose records lack shape elements: a star,
\* a planet on a flat orbit, and a second planet with one of the five shape
\* elements missing or a string (or with all of them).
\* ------------------------------------------------------------------------

ShapeFields ==
  {"semiMajorAxis", "orbitalEccentricity", "orbitalInclination",
   "ascendingNode", "argOfPeriapsis"}

PathProfiles ==
  {Tilted(2)}
    \cup {[Flat(2) EXCEPT ![f] = v] : f \in ShapeFields, v \in {NoneVal, StrVal}}

PathLists ==
  { << Record(0, TRUE, "Star", <<>>, NoOrbit),
       Record(1, FALSE, "Planet", <<0>>, Flat(4)),
       Record(2, FALSE, "Planet", <<1, 0>>, e2) >> : e2 \in PathProfiles }

InitPaths == LoadedFrom(PathLists)

NextPaths ==
  \/ Next
  \/ \E dx \in MouseDx : RotateCamera(dx)
  \/ \E recs \in PathLists : UpdateSystemData(recs)

SpecPaths == InitPaths /\ [][NextPaths]_vars

\* ------------------------------------------------------------------------
\* calculate_orbit_points as a pure function: the arguments are drawn from
\* bounded sets and the one action applies it.
\* ------------------------------------------------------------------------

OrbitArguments ==
  [ a : {NoneVal, Num(4)}, ecc : {Num(0), Num(50), Num(100), Num(200)},
    incl : {Num(0), Num(90)}, node : {Num(0), Num(90)},
    argp : {Num(0), Num(180)}, num_points : PointCounts ]

InitOrbit ==
  /\ call \in {[fn |-> "calculate_orbit_points", args |-> x, done |-> FALSE,
                result |-> <<>>] : x \in OrbitArguments}
  /\ NoSystemLoaded

CallOrbitPoints ==
  /\ call.fn = "calculate_orbit_points"
  /\ ~call.done
  /\ call' = [call EXCEPT
       !.done = TRUE,
       !.result = calculate_orbit_points(call.args.a, call.args.ecc,
                    call.args.incl, call.args.node, call.args.argp,
                    call.args.num_points)]
  /\ UNCHANGED << api_body_data, celestial_bodies, main_star_id,
                  orbit_center_body_id, current_focus_offset_au,
                  body_screen_coords, pc, current_time_dt, next_body,
                  body_positions, camera_rotation_y,
     drawable_objects, info_text, time_vars, view_vars >>

NextOrbit == CallOrbitPoints

SpecOrbit == InitOrbit /\ [][NextOrbit]_vars

\* ------------------------------------------------------------------------
\* The time-shift slider (Orrery.handle_ui_event) and the clock of the main
\* loop.  The acceleration factor is counted in eighths and the clock in
\* 1/8000 s, so that a frame of dt_ms milliseconds at factor a/8 advances
\* the clock by dt_ms * a units, and a frame in real time by 8 * dt_ms.
\* ------------------------------------------------------------------------

max_multiplier == 10000000
exponent == 5
\* The deadzone is abs(normalized_dist) < 0.05, one twentieth.
DeadzoneInverse == 20
FactorUnits == 8

max_dist == slider_width \div 2

\* A faulty variant of Acceleration: the sign of the distance is dropped.
AccelerationUnsigned(distance) ==
  IF DeadzoneInverse * Abs(distance) < max_dist THEN 0
  ELSE (Abs(distance) \div (max_dist \div DeadzoneInverse)) ^ exponent
         * ((FactorUnits * max_multiplier) \div DeadzoneInverse ^ exponent)

\* The factor for a handle `distance` pixels from the centre:
\* sign * abs(distance / max_dist) ** exponent * max_multiplier outside the
\* deadzone.  Exact where distance is a whole number of twentieths of
\* max_dist.
Acceleration(distance) ==
  IF DeadzoneInverse * Abs(distance) < max_dist THEN 0
  ELSE LET magnitude ==
             (Abs(distance) \div (max_dist \div DeadzoneInverse)) ^ exponent
               * ((FactorUnits * max_multiplier) \div DeadzoneInverse ^ exponent)
       IN IF distance < 0 THEN -magnitude ELSE magnitude

\* The x coordinates of the mouse: every twentieth of the slider, a point
\* inside the deadzone on either side, and the two edges of the window.
MousePixels ==
  {SliderCenterX + k * (max_dist \div DeadzoneInverse) :
     k \in (-DeadzoneInverse)..DeadzoneInverse}
    \cup {SliderCenterX - 17, SliderCenterX + 17, 0, SCREEN_WIDTH}

\* MOUSEBUTTONDOWN on the slider handle.
SliderPress ==
  /\ ~dragging_slider
  /\ dragging_slider' = TRUE
  /\ UNCHANGED << slider_handle_pos, time_acceleration_factor,
                  current_time_for_orrery, dt_ms >>
  /\ UNCHANGED << call, api_body_data, celestial_bodies, main_star_id,
                  orbit_center_body_id, current_focus_offset_au,
                  body_screen_coords, pc, current_time_dt, next_body,
                  body_positions, camera_rotation_y,
                  drawable_objects, info_text, view_vars >>

\* A faulty variant of SliderRelease: the drag ends where the handle is.
ReleaseWithoutSnap ==
  /\ dragging_slider' = FALSE
  /\ UNCHANGED << slider_handle_pos, time_acceleration_factor,
                  current_time_for_orrery, dt_ms >>
  /\ UNCHANGED << call, api_body_data, celestial_bodies, main_star_id,
                  orbit_center_body_id, current_focus_offset_au,
                  body_screen_coords, pc, current_time_dt, next_body,
                  body_positions, camera_rotation_y,
                  drawable_objects, info_text, view_vars >>

\* MOUSEBUTTONUP of button 1: snap back to centre.
SliderRelease ==
  /\ dragging_slider' = FALSE
  /\ slider_handle_pos' = SliderCenterX
  /\ time_acceleration_factor' = 0
  /\ UNCHANGED << current_time_for_orrery, dt_ms >>
  /\ UNCHANGED << call, api_body_data, celestial_bodies, main_star_id,
                  orbit_center_body_id, current_focus_offset_au,
                  body_screen_coords, pc, current_time_dt, next_body,
                  body_positions, camera_rotation_y,
                  drawable_objects, info_text, view_vars >>

\* MOUSEMOTION to x while the slider is dragged.
SliderMotion(x) ==
  /\ dragging_slider
  /\ LET pos == IF x < SliderLeft THEN SliderLeft
                ELSE IF x > SliderRight THEN SliderRight ELSE x
     IN /\ slider_handle_pos' = pos
        /\ time_acceleration_factor' = Acceleration(pos - SliderCenterX)
  /\ UNCHANGED << dragging_slider, current_time_for_orrery, dt_ms >>
  /\ UNCHANGED << call, api_body_data, celestial_bodies, main_star_id,
                  orbit_center_body_id, current_focus_offset_au,
                  body_screen_coords, pc, current_time_dt, next_body,
                  body_positions, camera_rotation_y,
                  drawable_objects, info_text, view_vars >>

\* A faulty variant of TimeAdvance: the factor is ignored.
TimeAdvanceRealTime(dt, acceleration) == FactorUnits * dt

\* Time Update Logic: the advance of the clock in a frame of dt ms.
TimeAdvance(dt, acceleration) ==
  IF acceleration # 0 THEN dt * acceleration ELSE FactorUnits * dt

\* The frame times clock.tick(FPS) gives, and the clock value up to which
\* the model lets frames run.
FrameMs == {16, 17}
MaxClock == 150

TimeUpdate(dt) ==
  /\ Abs(current_time_for_orrery) <= MaxClock
  /\ dt_ms' = dt
  /\ current_time_for_orrery' =
       current_time_for_orrery + TimeAdvance(dt, time_acceleration_factor)
  /\ UNCHANGED << slider_handle_pos, dragging_slider,
                  time_acceleration_factor >>
  /\ UNCHANGED << call, api_body_data, celestial_bodies, main_star_id,
                  orbit_center_body_id, current_focus_offset_au,
                  body_screen_coords, pc, current_time_dt, next_body,
                  body_positions, camera_rotation_y,
                  drawable_objects, info_text, view_vars >>

InitTime == call = NoCall /\ NoSystemLoaded

NextTime ==
  \/ SliderPress
  \/ SliderRelease
  \/ \E x \in MousePixels : SliderMotion(x)
  \/ \E dt \in FrameMs : TimeUpdate(dt)

SpecTime == InitTime /\ [][NextTime]_vars

\* ------------------------------------------------------------------------
\* solve_kepler_equation step by step, in fixed point.  Angles are whole
\* milliradians and sines are thousandths, eccentricities hundredths.  A
\* tolerance below the resolution (1e-9 on the step, 1e-10 on the
\* derivative) is met exactly when the quantity is 0 at the resolution.
\* ------------------------------------------------------------------------

RadUnits == 10 * EccOne
PiFix == 3142
HalfPiFix == 1571
TwoPiFix == 2 * PiFix

\* a / b to the nearest whole number (b > 0), and truncated towards 0.
RoundDiv(a, b) == (2 * a + b) \div (2 * b)
TruncDiv(a, b) ==
  IF (a >= 0) = (b > 0)
  THEN (IF a >= 0 THEN a ELSE -a) \div (IF b > 0 THEN b ELSE -b)
  ELSE -((IF a >= 0 THEN a ELSE -a) \div (IF b > 0 THEN b ELSE -b))

\* np.sin on [-pi/2, pi/2]: the series x (1 - x^2/6 (1 - x^2/20 (1 -
\* x^2/42 (1 - x^2/72)))).
SinSeries(x) ==
  LET x2 == RoundDiv(x * x, RadUnits)
      t4 == RadUnits - RoundDiv(x2, 72)
      t3 == RadUnits - RoundDiv(RoundDiv(x2 * t4, RadUnits), 42)
      t2 == RadUnits - RoundDiv(RoundDiv(x2 * t3, RadUnits), 20)
      t1 == RadUnits - RoundDiv(RoundDiv(x2 * t2, RadUnits), 6)
  IN RoundDiv(x * t1, RadUnits)

\* np.sin and np.cos of any angle.
SinFix(x) ==
  LET r == x % TwoPiFix
  IN IF r <= HalfPiFix THEN SinSeries(r)
     ELSE IF r <= PiFix + HalfPiFix THEN SinSeries(PiFix - r)
     ELSE SinSeries(r - TwoPiFix)
CosFix(x) == SinFix(x + HalfPiFix)

\* Initial Guess for E.
InitialGuess(M, ecc) == IF ecc < EccHighStart THEN M ELSE PiFix

\* A faulty variant of KeplerF: the sign of the sine term is wrong.
KeplerFPlus(E, M, ecc) == E + RoundDiv(ecc * SinFix(E), EccOne) - M

\* f(E) = E - e sin(E) - M, in milliradians.
KeplerF(E, M, ecc) == E - RoundDiv(ecc * SinFix(E), EccOne) - M
\* f'(E) = 1 - e cos(E), in thousandths.
KeplerFp(E, ecc) == RadUnits - RoundDiv(ecc * CosFix(E), EccOne)

\* A faulty variant of LoopExhausted: the loop has no cap.
NeverExhausted(n) == FALSE

\* for _ in range(max_iterations): the loop has run n times.
LoopExhausted(n) == n >= MaxIterations

\* The inputs of the solver: a grid, and e = -1 with M next to pi, where
\* the derivative 1 - e cos(E) of the first iterate is 0 at the resolution.
EccGrid == {0, 10, 30, 50, 70, 79, 80, 90, 94, 99, 100, 150, -50}
MeanAnomalies == {k * 97 : k \in 0..64} \cup {138, PiFix, 6283}
KeplerArguments ==
  [M : MeanAnomalies, ecc : EccGrid]
    \cup {[M |-> m, ecc |-> -EccOne] : m \in {32 * 97, PiFix}}

\* A call of solve_kepler_equation: the arguments, the iterate E, the
\* number of iterations begun, and how the call came back.
InitKepler ==
  /\ call \in {[fn |-> "solve_kepler_equation", args |-> x, at |-> "guess",
                E |-> 0, iterations |-> 0, done |-> FALSE, how |-> "running"] :
                x \in KeplerArguments}
  /\ NoSystemLoaded

KeplerGuess ==
  /\ call.fn = "solve_kepler_equation"
  /\ call.at = "guess"
  /\ call' = [call EXCEPT !.at = "loop",
                          !.E = InitialGuess(call.args.M, call.args.ecc)]
  /\ UNCHANGED program_vars

\* One pass of the loop body; the call returns from inside it when the
\* step is below the tolerance, and behind the loop after the break on a
\* vanishing derivative or when the loop is exhausted.
KeplerIterate ==
  /\ call.fn = "solve_kepler_equation"
  /\ call.at = "loop"
  /\ ~call.done
  /\ LET f_E == KeplerF(call.E, call.args.M, call.args.ecc)
         fp_E == KeplerFp(call.E, call.args.ecc)
         delta_E == TruncDiv(f_E * RadUnits, fp_E)
         n == call.iterations + 1
     IN IF fp_E = 0
        THEN call' = [call EXCEPT !.iterations = n, !.done = TRUE,
                                  !.how = "guard"]
        ELSE IF delta_E = 0
        THEN call' = [call EXCEPT !.iterations = n, !.E = call.E - delta_E,
                                  !.done = TRUE, !.how = "converged"]
        ELSE call' = [call EXCEPT !.iterations = n, !.E = call.E - delta_E,
                                  !.done = LoopExhausted(n),
                                  !.how = IF LoopExhausted(n) THEN "cap"
                                          ELSE "running"]
  /\ UNCHANGED program_vars

NextKepler == KeplerGuess \/ KeplerIterate

SpecKepler == InitKepler /\ [][NextKepler]_vars

\* ------------------------------------------------------------------------
\* physics.get_elite_time and physics.get_elite_current_time_dt: the wall
\* clock date moved to the year + 1286.
\* ------------------------------------------------------------------------

EliteYearOffset == 1286

IsLeapYear(y) == (y % 4 = 0 /\ y % 100 # 0) \/ y % 400 = 0
DaysInMonth(y, m) ==
  IF m = 2 THEN (IF IsLeapYear(y) THEN 29 ELSE 28)
  ELSE IF m \in {4, 6, 9, 11} THEN 30 ELSE 31

Date(y, m, d) == [kind |-> "date", year |-> y, month |-> m, day |-> d]
ValueError == [kind |-> "raise"]

\* datetime.replace(year=..., day=...): ValueError when the day is not in
\* the month of the new year.
Replace(date, y, d) ==
  IF d <= DaysInMonth(y, date.month) THEN Date(y, date.month, d)
  ELSE ValueError

\* strftime('%d-%m-%Y ...') of a date.
Strftime(date) ==
  [kind |-> "str", day |-> date.day, month |-> date.month, year |-> date.year]

get_elite_time(now_utc) ==
  LET elite_time == Replace(now_utc, now_utc.year + EliteYearOffset, now_utc.day)
  IN IF elite_time = ValueError THEN ValueError ELSE Strftime(elite_time)

get_elite_current_time_dt(now_utc) ==
  LET elite_time_dt ==
        Replace(now_utc, now_utc.year + EliteYearOffset, now_utc.day)
  IN IF elite_time_dt = ValueError
     THEN Replace(now_utc, now_utc.year + EliteYearOffset, 28)
     ELSE elite_time_dt

\* datetime.now(timezone.utc): the dates of a few years around a leap day.
WallYears == 2023..2028
WallDates ==
  UNION { UNION { {Date(y, m, d) : d \in 1..DaysInMonth(y, m)} : m \in 1..12 } :
          y \in WallYears }

InitClock ==
  /\ call \in {[fn |-> f, args |-> now, done |-> FALSE, result |-> <<>>] :
                f \in {"get_elite_time", "get_elite_current_time_dt"},
                now \in WallDates}
  /\ NoSystemLoaded

CallGetEliteTime ==
  /\ call.fn = "get_elite_time"
  /\ ~call.done
  /\ call' = [call EXCEPT !.done = TRUE, !.result = get_elite_time(call.args)]
  /\ UNCHANGED program_vars

CallGetEliteCurrentTimeDt ==
  /\ call.fn = "get_elite_current_time_dt"
  /\ ~call.done
  /\ call' = [call EXCEPT !.done = TRUE,
                          !.result = get_elite_current_time_dt(call.args)]
  /\ UNCHANGED program_vars

NextClock == CallGetEliteTime \/ CallGetEliteCurrentTimeDt

SpecClock == InitClock /\ [][NextClock]_vars

\* ------------------------------------------------------------------------
\* renderer.project_3d_to_2d.  A float is NaN, an infinity, or a finite
\* value n / d (d > 0).  The divisor is counted in millionths, so epsilon
\* (1e-6) is one unit; coordinates, the camera offset and the scale are
\* whole numbers and the perspective strength is a number of thousandths.
\* ------------------------------------------------------------------------

COORD_MIN == -32760
COORD_MAX == 32760
epsilon == 1
Micro == 1000 * 1000

NaN == [t |-> "nan"]
Inf(s) == [t |-> "inf", s |-> s]
Fin(n, d) == [t |-> "fin", n |-> n, d |-> d]

SignOf(v) ==
  IF v.t = "inf" THEN v.s ELSE IF v.n > 0 THEN 1 ELSE IF v.n < 0 THEN -1 ELSE 0

\* The product of two floats: NaN spreads, infinity times 0 is NaN.
FMul(a, b) ==
  IF a.t = "nan" \/ b.t = "nan" THEN NaN
  ELSE IF a.t = "inf" \/ b.t = "inf"
  THEN (IF SignOf(a) = 0 \/ SignOf(b) = 0 THEN NaN
        ELSE Inf(SignOf(a) * SignOf(b)))
  ELSE Fin(a.n * b.n, a.d * b.d)

\* divisor = (z_3d * perspective_strength) + camera_z_offset + epsilon
Divisor(z_3d, camera_z_offset, strength_milli) ==
  IF z_3d.t = "nan" THEN NaN
  ELSE IF z_3d.t = "inf"
  THEN (IF strength_milli = 0 THEN NaN ELSE Inf(z_3d.s))
  ELSE Fin(z_3d.n * strength_milli * 1000 + camera_z_offset * Micro + epsilon,
           Micro)

\* A faulty variant of Perspective: 1.0 / divisor without the test of the
\* divisor.
PerspectiveUnguarded(divisor) ==
  IF divisor.t = "nan" THEN NaN
  ELSE IF divisor.t = "inf" THEN Fin(0, 1)
  ELSE Fin(Micro, divisor.n)

\* if divisor <= epsilon: perspective = 0.0001; else: 1.0 / divisor
Perspective(divisor) ==
  IF divisor.t = "nan" THEN NaN
  ELSE IF divisor.t = "inf"
  THEN (IF divisor.s < 0 THEN Fin(1, 10000) ELSE Fin(0, 1))
  ELSE IF divisor.n <= epsilon THEN Fin(1, 10000)
  ELSE Fin(Micro, divisor.n)

\* int(v) of centre + n / d: truncation towards 0.
IntOfSum(centre, component) ==
  LET q == TruncDiv(component.n, component.d)
      r == component.n - q * component.d
      w == centre + q
  IN IF r > 0 /\ w < 0 THEN w + 1
     ELSE IF r < 0 /\ w > 0 THEN w - 1
     ELSE w

\* A faulty variant of ClampCoord: no clamping.
NoClamp(v) == v

\* max(COORD_MIN, min(v, COORD_MAX))
ClampCoord(v) ==
  IF v > COORD_MAX THEN COORD_MAX ELSE IF v < COORD_MIN THEN COORD_MIN ELSE v

\* Clamp values: a non-finite sum is COORD_MAX when it is > 0, else
\* COORD_MIN; a finite one is clamped and truncated.
ToScreen(centre, component) ==
  IF component.t = "nan" THEN COORD_MIN
  ELSE IF component.t = "inf"
  THEN (IF component.s > 0 THEN COORD_MAX ELSE COORD_MIN)
  ELSE ClampCoord(IntOfSum(centre, component))

project_3d_to_2d(x_3d, y_3d, z_3d, camera_z_offset, scale_factor, strength_milli) ==
  LET divisor == Divisor(z_3d, camera_z_offset, strength_milli)
      perspective == Perspective(divisor)
      projected_x_component == FMul(FMul(x_3d, scale_factor), perspective)
      projected_y_component == FMul(FMul(y_3d, scale_factor), perspective)
  IN [ sx |-> ToScreen(SCREEN_WIDTH \div 2, projected_x_component),
       sy |-> ToScreen(SCREEN_HEIGHT \div 2, projected_y_component),
       perspective |-> perspective ]

\* The arguments: non-finite and finite coordinates, depths on both sides
\* of the camera plane and next to it, and the strengths the program uses.
NonFinite == {NaN, Inf(1), Inf(-1)}
ProjectArguments ==
  [ x : NonFinite \cup {Fin(n, 1) : n \in {-100, -1, 0, 1, 100}},
    y : NonFinite \cup {Fin(n, 1) : n \in {-100, 0, 100}},
    z : NonFinite \cup {Fin(n, 1) : n \in {-20000, -10000, -9990, 0, 1000}},
    camera_z_offset : {50},
    scale_factor : {Fin(0, 1), Fin(1, 1), Fin(20, 1), Inf(1)},
    strength_milli : {1, 5, 10} ]

InitProject ==
  /\ call \in {[fn |-> "project_3d_to_2d", args |-> a, done |-> FALSE,
                result |-> <<>>] : a \in ProjectArguments}
  /\ NoSystemLoaded

CallProject ==
  /\ call.fn = "project_3d_to_2d"
  /\ ~call.done
  /\ call' = [call EXCEPT
       !.done = TRUE,
       !.result = project_3d_to_2d(call.args.x, call.args.y, call.args.z,
                    call.args.camera_z_offset, call.args.scale_factor,
                    call.args.strength_milli)]
  /\ UNCHANGED program_vars

NextProject == CallProject

SpecProject == InitProject /\ [][NextProject]_vars

\* ------------------------------------------------------------------------
\* Orrery.draw on one point in camera space (a body, or a point of an orbit
\* path) between drags of the middle button: the point is projected with
\* the zoom as scale factor and the default strength, and the pan offsets
\* are added to what the projection returns.
\* ------------------------------------------------------------------------

\* sx = sx_proj + self.pan_offset_x; sy = sy_proj + self.pan_offset_y
DrawnPoint(args, pan_x, pan_y) ==
  LET proj == project_3d_to_2d(args.x, args.y, args.z, args.camera_z_offset,
                               args.scale_factor, args.strength_milli)
  IN [ sx |-> proj.sx + pan_x, sy |-> proj.sy + pan_y ]

\* Points at the centre of the view, off the centre, next to the camera
\* plane (where the projection clamps) and with non-finite coordinates.
DrawArguments ==
  [ x : {Fin(0, 1), Fin(100, 1), Fin(-100, 1), Inf(1)},
    y : {Fin(0, 1), Fin(100, 1), NaN},
    z : {Fin(0, 1), Fin(-9990, 1)},
    camera_z_offset : {50},
    scale_factor : {Fin(1, 1), Fin(20, 1)},
    strength_milli : {5} ]

InitPan ==
  /\ call \in {[fn |-> "draw", args |-> a, done |-> FALSE,
                result |-> <<>>] : a \in DrawArguments}
  /\ NoSystemLoaded

\* One frame's draw of the point, with the pan offsets as they are.
DrawPoint ==
  /\ call.fn = "draw"
  /\ call' = [call EXCEPT
       !.done = TRUE,
       !.result = DrawnPoint(call.args, pan_offset_x, pan_offset_y)]
  /\ UNCHANGED program_vars

NextPan ==
  \/ DrawPoint
  \/ \E drag \in PanDrags : PanView(drag[1], drag[2])

SpecPan == InitPan /\ [][NextPan]_vars

\* ------------------------------------------------------------------------
\* calculate_position_at_time as a pure function: circular orbits on the
\* grid, epochs in the three accepted formats, a string in none of them and
\* a value that is not a string, and a few query times.
\* ------------------------------------------------------------------------

QueryTimes == 0..2

PositionArguments ==
  [ a : {Num(4)}, ecc : {Num(0)}, incl : {Num(0), Num(90)},
    node : {Num(0), Num(90)}, argp : {Num(0), Num(180)},
    period : {Num(4), Num(2)}, m0 : {Num(0), Num(90), Num(270)},
    epoch : {EpochStr("TZ", 0), EpochStr("plus", 0), EpochStr("iso", 1),
             EpochStr("other", 0), Num(0)},
    now : QueryTimes ]

InitPosition ==
  /\ call \in {[fn |-> "calculate_position_at_time", args |-> x,
                done |-> FALSE, result |-> <<>>] : x \in PositionArguments}
  /\ NoSystemLoaded

CallPosition ==
  /\ call.fn = "calculate_position_at_time"
  /\ ~call.done
  /\ call' = [call EXCEPT
       !.done = TRUE,
       !.result = calculate_position_at_time(call.args.a, call.args.ecc,
                    call.args.incl, call.args.node, call.args.argp,
                    call.args.period, call.args.m0, call.args.epoch,
                    call.args.now)]
  /\ UNCHANGED program_vars

NextPosition == CallPosition

SpecPosition == InitPosition /\ [][NextPosition]_vars

\* ========================================================================
\* The claims
\* ========================================================================

NBodies == Len(celestial_bodies)
IndexOf(id) == CHOOSE k \in 1..NBodies : celestial_bodies[k].id = id
\* The update has run to its end (the frame is about to draw).
UpdateDone == pc = "draw"
\* The step that ends the update: the re-basing pass.
RebaseStep == pc = "update" /\ pc' = "draw"
\* A step of the loop over the bodies.
LoopStep == pc = "update" /\ pc' = "update"
\* The local position update gave body k in this tick.
LocalOf(k) == LocalPosition(celestial_bodies[k], current_time_dt).v

\* The sum of the local positions from body k up its ancestor chain, as far
\* as the chain stays in the collection (at most `fuel` bodies).
RECURSIVE ChainSum(_, _)
ChainSum(k, fuel) ==
  IF fuel = 0 THEN Zero3
  ELSE LET p == celestial_bodies[k].parent_id
       IN IF p \in BodyIds
          THEN VAdd(LocalOf(k), ChainSum(IndexOf(p), fuel - 1))
          ELSE LocalOf(k)

\* The ancestor chain of body k leaves the collection within `fuel` steps
\* (it does not run into a cycle).
RECURSIVE ChainEnds(_, _)
ChainEnds(k, fuel) ==
  LET p == celestial_bodies[k].parent_id
  IN IF p \notin BodyIds THEN TRUE
     ELSE IF fuel = 0 THEN FALSE
     ELSE ChainEnds(IndexOf(p), fuel - 1)

\* C1 (stated as claimed; the code violates it): whenever update is about
\* to compose a body whose parent is in the collection, the parent's
\* absolute position of this tick is already in the position map.
C1_ParentBeforeChild ==
  (pc = "update" /\ next_body <= NBodies) =>
     LET body == celestial_bodies[next_body]
     IN body.parent_id \in BodyIds => body.parent_id \in DOMAIN body_positions

\* C2 (stated as claimed; the code violates it): after an update with no
\* focus body, the absolute position of every body is the sum of the local
\* positions along its ancestor chain.
C2_AbsoluteIsChainSum ==
  (UpdateDone /\ orbit_center_body_id = None) =>
     \A k \in 1..NBodies :
        ChainEnds(k, NBodies) =>
          celestial_bodies[k].current_pos_au = ChainSum(k, NBodies)

\* C3: the re-basing pass of an update with focus body F leaves F at
\* exactly (0,0,0) and takes F's absolute position, as it was before the
\* pass, off every body's absolute position and off every body's stored
\* parent offset.
C3_RebaseToFocus ==
  [][ (RebaseStep /\ orbit_center_body_id \in BodyIds) =>
        LET F == IndexOf(orbit_center_body_id)
            before == celestial_bodies[F].current_pos_au
        IN /\ celestial_bodies'[F].current_pos_au = Zero3
           /\ \A k \in 1..NBodies :
                /\ celestial_bodies'[k].current_pos_au =
                     VSub(celestial_bodies[k].current_pos_au, before)
                /\ celestial_bodies'[k].orbit_center_pos_au =
                     VSub(celestial_bodies[k].orbit_center_pos_au, before) ]_vars

\* C3 witness: an update has re-based a system of several bodies to a focus
\* body that was away from the origin.
C3_Witness ==
  /\ UpdateDone
  /\ orbit_center_body_id \in BodyIds
  /\ NBodies >= 2
  /\ current_focus_offset_au # Zero3
  /\ celestial_bodies[IndexOf(orbit_center_body_id)].current_pos_au = Zero3
  /\ \E k \in 1..NBodies : celestial_bodies[k].current_pos_au # Zero3

\* C4: within a tick the re-basing pass starts only when the absolute
\* position of every body is in the position map, and while the loop over
\* the bodies runs no position computed in this tick has been re-based: it
\* is still the absolute position the map holds, and the parent offset is
\* the parent's entry of the map.
C4_RebaseAfterAllComputed ==
  [][ /\ RebaseStep => \A k \in 1..NBodies :
                          celestial_bodies[k].id \in DOMAIN body_positions
      /\ LoopStep => \A k \in 1..(next_body' - 1) :
            /\ celestial_bodies'[k].current_pos_au =
                 body_positions'[celestial_bodies'[k].id]
            /\ celestial_bodies'[k].orbit_center_pos_au \in
                 {Zero3} \cup {body_positions'[i] : i \in DOMAIN body_positions'}
    ]_vars

\* C4 witness: with a focus body designated, the loop has computed all of
\* three bodies and the re-basing pass is about to start.
C4_Witness ==
  /\ pc = "update"
  /\ LoopDone(next_body, celestial_bodies)
  /\ NBodies = 3
  /\ orbit_center_body_id \in BodyIds
  /\ body_positions[orbit_center_body_id] # Zero3

\* C5 (stated as claimed; the code violates it): after process_api_data on
\* a non-empty list exactly one stored body is the designated root, it has
\* depth 0 and no parent, and every other body has a parent id.
C5_SingleRoot ==
  api_body_data # <<>> =>
    /\ Cardinality({k \in 1..NBodies : celestial_bodies[k].id = main_star_id}) = 1
    /\ \A k \in 1..NBodies :
         IF celestial_bodies[k].id = main_star_id
         THEN celestial_bodies[k].depth = 0 /\ celestial_bodies[k].parent_id = None
         ELSE celestial_bodies[k].parent_id # None

\* C6 (stated as claimed; the code violates it): a stored body whose parent
\* is in the collection is one level deeper than its parent.
C6_DepthIsParentDepthPlusOne ==
  \A j, k \in 1..NBodies :
     celestial_bodies[k].parent_id = celestial_bodies[j].id =>
       celestial_bodies[k].depth = celestial_bodies[j].depth + 1

\* The root the claimed rule designates for a record list: the first record
\* carrying the marker; else the first of the records of least declared
\* depth among those whose parent is not in the list; else the first record.
Unparented(recs) ==
  {k \in 1..Len(recs) :
     \/ recs[k].parents = <<>>
     \/ recs[k].parents[1] \notin {recs[j].bodyId : j \in 1..Len(recs)}}
ClaimedRoot(recs) ==
  IF FirstMarked(recs) # 0 THEN recs[FirstMarked(recs)].bodyId
  ELSE IF Unparented(recs) # {}
  THEN LET least == CHOOSE k \in Unparented(recs) :
                      \A j \in Unparented(recs) :
                         \/ Len(recs[k].parents) < Len(recs[j].parents)
                         \/ Len(recs[k].parents) = Len(recs[j].parents) /\ k <= j
       IN recs[least].bodyId
  ELSE recs[1].bodyId

\* C7 (stated as claimed; the code violates it): for a non-empty record
\* list the designated main star is the root of the claimed rule, and it is
\* the id of a body of the loaded collection.
C7_RootDesignated ==
  api_body_data # <<>> =>
    /\ main_star_id \in BodyIds
    /\ main_star_id = ClaimedRoot(api_body_data)

\* A body whose orbit is unresolvable: an element field is missing or is
\* not a number.
Unresolvable(body) ==
  \E v \in {body.semiMajorAxis, body.orbitalEccentricity,
            body.orbitalInclination, body.ascendingNode, body.argOfPeriapsis,
            body.orbitalPeriod, body.meanAnomalyAtEpoch} : ~IsNumber(v)

\* C8 (stated as claimed; the code violates it): update never raises, and
\* when it is done every body has a position in the map and every child of
\* an unresolvable body sits at its own local position plus that body's
\* absolute position.
C8_UnresolvableNeverFatal ==
  /\ pc # "raised"
  /\ UpdateDone =>
       /\ \A k \in 1..NBodies : celestial_bodies[k].id \in DOMAIN body_positions
       /\ \A j, k \in 1..NBodies :
            (Unresolvable(celestial_bodies[j])
               /\ celestial_bodies[k].parent_id = celestial_bodies[j].id) =>
              body_positions[celestial_bodies[k].id] =
                VAdd(LocalOf(k), body_positions[celestial_bodies[j].id])

\* The position solve of a body is skipped: an element, the period or the
\* epoch is missing, or the period is 0.
SolveSkipped(body) ==
  \/ \E v \in {body.orbitalEccentricity, body.orbitalInclination,
               body.ascendingNode, body.argOfPeriapsis, body.orbitalPeriod,
               body.meanAnomalyAtEpoch, body.epochTimestamp} : IsNone(v)
  \/ (IsNumber(body.orbitalPeriod) /\ body.orbitalPeriod.val = 0)

\* C9 (stated as claimed; the code violates it): a body with a semi-major
\* axis whose position solve is skipped gets the local position
\* (semiMajorAxis / 2, 0, 0).
C9_DegenerateFallback ==
  UpdateDone =>
    \A k \in 1..NBodies :
       LET body == celestial_bodies[k]
       IN (IsNumber(body.semiMajorAxis) /\ SolveSkipped(body)) =>
            VSub(body.current_pos_au, body.orbit_center_pos_au)
              = <<body.semiMajorAxis.val \div 2, 0, 0>>

\* C10 (stated as claimed; the code violates it): calculate_orbit_points
\* returns the empty sequence for every eccentricity e >= 1.
C10_OpenOrbitEmpty ==
  (call.fn = "calculate_orbit_points" /\ call.done
     /\ IsNumber(call.args.ecc) /\ call.args.ecc.val >= EccOne) =>
    call.result = <<>>

\* The call of calculate_orbit_points has returned for a closed orbit: the
\* five shape elements are present and 0 <= e < 1.
ClosedOrbitCall ==
  /\ call.fn = "calculate_orbit_points" /\ call.done
  /\ IsNumber(call.args.a) /\ IsNumber(call.args.incl)
  /\ IsNumber(call.args.node) /\ IsNumber(call.args.argp)
  /\ IsNumber(call.args.ecc)
  /\ call.args.ecc.val >= 0 /\ call.args.ecc.val < EccOne

\* The point of the orbit of the call at true anomaly nu.
PointAt(nu) ==
  OrbitPoint(call.args.a.val, call.args.ecc.val, Radians(call.args.incl.val),
             Radians(call.args.argp.val), Radians(call.args.node.val), nu)

\* C11: for 0 <= e < 1 with the five shape elements present
\* calculate_orbit_points returns exactly num_points points; the first is
\* the point at true anomaly 0, the last the point at 2 pi, and the two
\* coincide (the path is closed).
C11_ClosedPath ==
  ClosedOrbitCall =>
    /\ Len(call.result) = call.args.num_points
    /\ call.args.num_points >= 1 => call.result[1] = PointAt(0)
    /\ call.args.num_points >= 2 =>
         /\ call.result[call.args.num_points] = PointAt(TwoPi)
         /\ call.result[call.args.num_points] = call.result[1]

\* C11 witness: an eccentric orbit sampled at five points has come back
\* closed, and it is not a single point.
C11_Witness ==
  /\ ClosedOrbitCall
  /\ call.args.ecc.val > 0
  /\ call.args.num_points = 5
  /\ Len(call.result) = 5
  /\ call.result[1] = call.result[5]
  /\ call.result[1] # call.result[3]

\* The solver has returned E for the arguments of the call.
KeplerCall == call.fn = "solve_kepler_equation"
KeplerReturned == KeplerCall /\ call.done

\* C12: solve_kepler_equation begins at most max_iterations iterations and
\* then has returned, whatever the mean anomaly and the eccentricity; what
\* it returns is an angle: the iterate whose step was below the tolerance,
\* the iterate at which the derivative vanished, or the last iterate when
\* the loop is exhausted.
C12_SolverTotal ==
  KeplerCall =>
    /\ call.iterations <= MaxIterations
    /\ call.iterations = MaxIterations => call.done
    /\ call.E \in Int
    /\ call.done <=> call.how \in {"converged", "guard", "cap"}
    /\ call.how = "guard" => KeplerFp(call.E, call.args.ecc) = 0
    /\ call.how = "cap" => call.iterations = MaxIterations

\* C12 witness: a call whose steps never fell below the tolerance has come
\* back with the last iterate when the loop was exhausted.
C12_Witness ==
  /\ KeplerReturned
  /\ call.how = "cap"
  /\ call.iterations = MaxIterations
  /\ KeplerF(call.E, call.args.M, call.args.ecc) # 0

TimeStep == current_time_for_orrery' # current_time_for_orrery

\* C14 (stated as claimed; the code does otherwise): a frame advances the
\* clock by dt * (1 + acceleration) when the factor is not 0, and by dt
\* when it is 0.
C14_AdvanceOnePlusFactor ==
  [][ TimeStep =>
        current_time_for_orrery' - current_time_for_orrery =
          IF time_acceleration_factor # 0
          THEN dt_ms' * (FactorUnits + time_acceleration_factor)
          ELSE FactorUnits * dt_ms' ]_vars

\* C14 (amended): a frame advances the clock by dt * acceleration when the
\* factor is not 0, and by dt when it is 0.
C14_AdvanceByFactor ==
  [][ TimeStep =>
        current_time_for_orrery' - current_time_for_orrery =
          IF time_acceleration_factor # 0
          THEN dt_ms' * time_acceleration_factor
          ELSE FactorUnits * dt_ms' ]_vars

\* C14 witness: a frame of 16 ms at the factor 3.125 has moved the clock by
\* 16 * 3.125 ms, which is not 16 * 4.125 ms.
C14_Witness ==
  /\ time_acceleration_factor = 25
  /\ dt_ms = 16
  /\ current_time_for_orrery = 16 * 25

\* C15: the factor is always the one the mapping gives for the handle: 0
\* inside the deadzone (less than a twentieth of the half width from the
\* centre), exactly max_multiplier at the right end, and the negative of
\* the factor of the mirrored handle position.
C15_SliderMapping ==
  LET distance == slider_handle_pos - SliderCenterX
  IN /\ DeadzoneInverse * Abs(distance) < max_dist =>
          time_acceleration_factor = 0
     /\ distance = max_dist =>
          time_acceleration_factor = FactorUnits * max_multiplier
     /\ time_acceleration_factor = -Acceleration(-distance)
     /\ distance < 0 => time_acceleration_factor <= 0

\* C15 witness: the handle has been dragged to the left end, where the
\* factor is -max_multiplier.
C15_Witness ==
  /\ dragging_slider
  /\ slider_handle_pos = SliderLeft
  /\ time_acceleration_factor = -(FactorUnits * max_multiplier)

\* C16 (stated as claimed; the code violates it): both mappings of the
\* wall clock to the year + 1286 succeed for every date; the result keeps
\* the month, and keeps the day unless that day is not in the month of the
\* target year, when it is clamped into it.
C16_EpochMappingTotal ==
  (call.fn \in {"get_elite_time", "get_elite_current_time_dt"} /\ call.done) =>
    /\ call.result # ValueError
    /\ call.result.year = call.args.year + EliteYearOffset
    /\ call.result.month = call.args.month
    /\ call.result.day =
         IF call.args.day <= DaysInMonth(call.result.year, call.args.month)
         THEN call.args.day
         ELSE DaysInMonth(call.result.year, call.args.month)

\* The projection of the call has returned.
Projected == call.fn = "project_3d_to_2d" /\ call.done
\* The float sx_float (sy_float) of the call is not finite.
NonFiniteX ==
  FMul(FMul(call.args.x, call.args.scale_factor), call.result.perspective).t
    # "fin"
NonFiniteY ==
  FMul(FMul(call.args.y, call.args.scale_factor), call.result.perspective).t
    # "fin"

\* C17: project_3d_to_2d returns whole screen coordinates within
\* [COORD_MIN, COORD_MAX] for every input, finite or not; a non-finite sum
\* gives COORD_MAX when it is positive (+infinity) and COORD_MIN otherwise.
C17_ScreenCoordsClamped ==
  Projected =>
    /\ call.result.sx \in COORD_MIN..COORD_MAX
    /\ call.result.sy \in COORD_MIN..COORD_MAX
    /\ NonFiniteX => call.result.sx \in {COORD_MIN, COORD_MAX}
    /\ NonFiniteY => call.result.sy \in {COORD_MIN, COORD_MAX}
    /\ call.result.sx = COORD_MAX /\ NonFiniteX =>
         FMul(FMul(call.args.x, call.args.scale_factor),
              call.result.perspective) = Inf(1)

\* C17 witness: a finite point next to the camera plane has been clamped
\* to COORD_MAX in x while its y, not finite, went to COORD_MIN.
C17_Witness ==
  /\ Projected
  /\ ~NonFiniteX
  /\ call.result.sx = COORD_MAX
  /\ NonFiniteY
  /\ call.result.sy = COORD_MIN

\* The step is a whole draw.
DrawStep == pc = "draw" /\ pc' = "events"
\* The depths of a list never go up from one entry to the next.
BackToFront(objs) ==
  \A k \in 1..(Len(objs) - 1) : DepthGeq(objs[k].z_cam, objs[k + 1].z_cam)
\* Two lists hold the same entries.
SameEntries(a, b) ==
  /\ Len(a) = Len(b)
  /\ \A k \in 1..Len(a) : \E j \in 1..Len(b) : b[j] = a[k]
  /\ \A j \in 1..Len(b) : \E k \in 1..Len(a) : a[k] = b[j]

\* C18: the list a draw goes through holds one entry per body (its own
\* camera-space depth) and one per non-empty orbit path (the mean depth of
\* its points), and is in non-increasing order of z_cam: farthest first.
C18_DrawnBackToFront ==
  [][DrawStep =>
       /\ BackToFront(drawable_objects')
       /\ SameEntries(drawable_objects',
                      Collect(celestial_bodies, camera_rotation_x,
                              camera_rotation_y))]_vars

\* C18 witness: a draw went through bodies and orbit paths of three or
\* more different depths which the loop had built in another order.
C18_Witness ==
  /\ pc = "events"
  /\ drawable_objects = DrawableObjects(celestial_bodies, camera_rotation_x,
                                        camera_rotation_y)
  /\ drawable_objects # Collect(celestial_bodies, camera_rotation_x,
                              camera_rotation_y)
  /\ \E j, k \in 1..Len(drawable_objects) :
       /\ drawable_objects[j].type = "body"
       /\ drawable_objects[k].type = "orbit"
  /\ \E i, j, k \in 1..Len(drawable_objects) :
       /\ i < j /\ j < k
       /\ ~DepthGeq(drawable_objects[j].z_cam, drawable_objects[i].z_cam)
       /\ ~DepthGeq(drawable_objects[k].z_cam, drawable_objects[j].z_cam)
  /\ camera_rotation_y # 0

\* The step loads a system.
ReloadStep ==
  /\ pc = "events" /\ pc' = "events"
  /\ api_body_data' # api_body_data \/ celestial_bodies' # celestial_bodies
\* A body as process_api_data built it: its positions not yet computed.
AsBuilt(body) ==
  [body EXCEPT !.current_pos_au = Zero3, !.orbit_center_pos_au = Zero3]
\* The collection is the one built from the current record list alone.
BuiltFromCurrentRecords ==
  /\ main_star_id = IdentifyMainStar(api_body_data)
  /\ [k \in 1..Len(celestial_bodies) |-> AsBuilt(celestial_bodies[k])]
       = BuildBodies(api_body_data, IdentifyMainStar(api_body_data))
  /\ BodyIds = {api_body_data[k].bodyId : k \in 1..Len(api_body_data)}

\* C19: a load replaces the whole collection at once: right after it the
\* bodies are exactly those built from the new records, the main star is
\* derived from the new records alone, focus and focus offset are reset;
\* and at every step of every tick the collection is the one built from
\* the current record list, never a mix of two systems.
C19_ReloadReplacesAll ==
  /\ [][ReloadStep =>
          /\ celestial_bodies' =
               BuildBodies(api_body_data', IdentifyMainStar(api_body_data'))
          /\ main_star_id' = IdentifyMainStar(api_body_data')
          /\ orbit_center_body_id' = None
          /\ current_focus_offset_au' = Zero3]_vars
  /\ []BuiltFromCurrentRecords

\* C19 witness: a tick runs on a system loaded after another one was
\* drawn (the hit map still holds the ids of the old system) whose main
\* star was another body.
C19_Witness ==
  /\ pc = "update"
  /\ next_body > 1
  /\ body_screen_coords # {}
  /\ body_screen_coords # BodyIds
  /\ main_star_id \notin body_screen_coords
  /\ FirstMarked(api_body_data) = 0

\* The position map of one tick at time t over the first n bodies, taken
\* from the stored elements alone; and the parent offset body n gets.
RECURSIVE TickMap(_, _, _)
TickMap(bodies, n, t) ==
  IF n = 0 THEN EmptyMap
  ELSE LET m == TickMap(bodies, n - 1, t)
           b == bodies[n]
           parent == IF b.parent_id # None /\ b.parent_id \in DOMAIN m
                     THEN m[b.parent_id] ELSE Zero3
           absolute == VAdd(LocalPosition(b, t).v, parent)
       IN [id \in DOMAIN m \cup {b.id} |->
             IF id = b.id THEN absolute ELSE m[id]]
TickParent(bodies, n, t) ==
  LET m == TickMap(bodies, n - 1, t)
      b == bodies[n]
  IN IF b.parent_id # None /\ b.parent_id \in DOMAIN m
     THEN m[b.parent_id] ELSE Zero3
TickOffset(bodies, t, focus) ==
  LET m == TickMap(bodies, Len(bodies), t)
  IN IF focus # None /\ focus \in DOMAIN m THEN m[focus] ELSE Zero3

\* C20: what an update leaves is a function of the query time, the stored
\* elements and the focus id alone: every position, every stored parent
\* offset and the focus offset are those of one tick run on the bodies as
\* they were built, whatever earlier ticks (other times, other focus
\* bodies) left behind; so a second update at the same time changes nothing
\* and re-basing does not accumulate.
C20_FullRecompute ==
  UpdateDone =>
    LET built == [k \in 1..NBodies |-> AsBuilt(celestial_bodies[k])]
        m == TickMap(built, NBodies, current_time_dt)
        offset == TickOffset(built, current_time_dt, orbit_center_body_id)
    IN /\ current_focus_offset_au = offset
       /\ \A k \in 1..NBodies :
            /\ celestial_bodies[k].current_pos_au =
                 VSub(m[celestial_bodies[k].id], offset)
            /\ celestial_bodies[k].orbit_center_pos_au =
                 VSub(TickParent(built, k, current_time_dt), offset)

\* C20 witness: an update with a focus body away from the origin has run
\* after a frame that drew the bodies at other positions.
C20_Witness ==
  /\ UpdateDone
  /\ body_screen_coords # {}
  /\ orbit_center_body_id \in BodyIds
  /\ current_focus_offset_au # Zero3
  /\ drawable_objects # <<>>
  /\ drawable_objects # DrawableObjects(celestial_bodies, camera_rotation_x,
                                        camera_rotation_y)
  /\ \E k \in 1..NBodies : celestial_bodies[k].orbit_center_pos_au # Zero3

\* The orbit paths of the collection, body by body.
OrbitPaths ==
  [k \in 1..NBodies |->
     [id |-> celestial_bodies[k].id, path |-> celestial_bodies[k].orbit_path_au]]
\* Body k has its five shape elements, all of them numbers.
ShapeComplete(k) ==
  \A f \in ShapeFields : IsNumber(celestial_bodies[k][f])

\* C21: the orbit path of a body is what calculate_orbit_points gave when
\* the system was loaded, and nothing but a load changes it: update, draw,
\* focus changes, reset_view and camera drags leave every path as it was.
\* A body with a shape element missing or not a number has an empty path.
C21_OrbitPathFixedAtLoad ==
  /\ [][~ReloadStep => OrbitPaths' = OrbitPaths]_vars
  /\ [](\A k \in 1..NBodies :
          celestial_bodies[k].orbit_path_au =
            IF ShapeComplete(k)
            THEN calculate_orbit_points(
                   celestial_bodies[k].semiMajorAxis,
                   celestial_bodies[k].orbitalEccentricity,
                   celestial_bodies[k].orbitalInclination,
                   celestial_bodies[k].ascendingNode,
                   celestial_bodies[k].argOfPeriapsis, LoadPoints)
            ELSE <<>>)

\* C21 witness: a frame has re-based and drawn a system in which one body
\* has a path and another, with a semi-major axis but without one of the
\* other shape elements, has none.
C21_Witness ==
  /\ pc = "events"
  /\ body_screen_coords = BodyIds
  /\ current_focus_offset_au # Zero3
  /\ camera_rotation_y # 0
  /\ \E j, k \in 1..NBodies :
       /\ celestial_bodies[j].orbit_path_au # <<>>
       /\ celestial_bodies[j].orbit_center_pos_au # Zero3
       /\ celestial_bodies[k].orbit_path_au = <<>>
       /\ IsNumber(celestial_bodies[k].semiMajorAxis)
       /\ ~ShapeComplete(k)

\* The call of calculate_position_at_time has returned, and its epoch was
\* not a string in one of the three formats.
UnparsedEpochCall ==
  /\ call.fn = "calculate_position_at_time" /\ call.done
  /\ ~(call.args.epoch.tag = "str"
       /\ call.args.epoch.fmt \in {"TZ", "plus", "iso"})
\* What the call gives at query time t with epoch e, all else the same.
PositionWith(e, t) ==
  calculate_position_at_time(call.args.a, call.args.ecc, call.args.incl,
    call.args.node, call.args.argp, call.args.period, call.args.m0, e, t)

\* C22: with an epoch that does not parse, calculate_position_at_time
\* returns a position (it does not raise): the one of mean anomaly M0, that
\* is of an epoch equal to the query time, and the same at every query time.
C22_UnparsedEpochFreezesPhase ==
  UnparsedEpochCall =>
    /\ call.result.kind = "pos"
    /\ call.result = PositionWith(EpochStr("TZ", call.args.now), call.args.now)
    /\ \A t \in QueryTimes : PositionWith(call.args.epoch, t) = call.result

\* C22 witness: the call returned for a string in none of the formats, at
\* a query time at which a parsed epoch of day 0 gives another position.
C22_Witness ==
  /\ UnparsedEpochCall
  /\ call.args.epoch.tag = "str"
  /\ call.args.now > 0
  /\ call.result.kind = "pos"
  /\ call.result # PositionWith(EpochStr("TZ", 0), call.args.now)

\* C23: the re-basing pass of every update leaves in current_focus_offset_au
\* the vector it took off every position and every stored parent offset:
\* the absolute position the focus body had before the pass when the focus
\* id names a body, and (0,0,0) when no focus is designated.
C23_OffsetIsSubtractedVector ==
  [][RebaseStep =>
       /\ \A k \in 1..NBodies :
            /\ celestial_bodies'[k].current_pos_au =
                 VSub(celestial_bodies[k].current_pos_au,
                      current_focus_offset_au')
            /\ celestial_bodies'[k].orbit_center_pos_au =
                 VSub(celestial_bodies[k].orbit_center_pos_au,
                      current_focus_offset_au')
       /\ orbit_center_body_id \in BodyIds =>
            current_focus_offset_au' =
              celestial_bodies[IndexOf(orbit_center_body_id)].current_pos_au
       /\ orbit_center_body_id = None => current_focus_offset_au' = Zero3]_vars

\* C23 witness: in a system without a marked star, drawn in an earlier
\* frame, an update has re-based to a focus body away from the origin.
C23_Witness ==
  /\ UpdateDone
  /\ orbit_center_body_id \in BodyIds
  /\ current_focus_offset_au # Zero3
  /\ body_positions[orbit_center_body_id] = current_focus_offset_au
  /\ body_screen_coords = BodyIds
  /\ drawable_objects # <<>>
  /\ FirstMarked(api_body_data) = 0

\* The projection has returned for finite arguments.
FiniteProjected ==
  /\ Projected
  /\ call.args.x.t = "fin" /\ call.args.y.t = "fin" /\ call.args.z.t = "fin"
  /\ call.args.scale_factor.t = "fin"
\* z k + d0 + epsilon of the call, in millionths.
DivisorMicro ==
  call.args.z.n * call.args.strength_milli * 1000
    + call.args.camera_z_offset * Micro + epsilon
\* centre + num / den (den > 0), clamped to the safe range and truncated
\* towards 0, from the floor and the ceiling of the quotient.
CentrePlus(centre, num, den) ==
  LET lo == num \div den
      hi == -((-num) \div den)
  IN IF lo >= COORD_MAX - centre THEN COORD_MAX
     ELSE IF hi <= COORD_MIN - centre THEN COORD_MIN
     ELSE IF centre + lo >= 0 THEN centre + lo ELSE centre + hi

FetchStep ==
  pc = "events" /\ call'.fn = "fetch_system_data" /\ call' # call
\* The value returned has no bodies to load.
NothingToLoad(fetched) == Len(fetched) # 2 \/ fetched[1] = <<>>

\* C25 (stated as claimed; the code violates it): fetch_system_data returns
\* a pair on every path, the handler that unpacks it leaves the loop
\* running, and a fetch without bodies leaves the loaded system in place
\* (a search also sets the 'System not found or no data.' message).
C25_FetchReturnsPair ==
  [][FetchStep =>
       /\ Len(call'.result) = 2
       /\ pc' = "events"
       /\ NothingToLoad(call'.result) =>
            /\ UNCHANGED << api_body_data, celestial_bodies, main_star_id >>
            /\ call'.by = "search" => info_text' = NotFoundMessage]_vars


\* The zoom that fits the current plane radius: 20000 / radius (in AU), at
\* least 0.01, and 0.1 for a radius that is not positive.
ZoomFitsPlane ==
  IF plane_radius_au > 0
  THEN LET fitted == (20000 * PlaneUnits * ZoomUnits) \div plane_radius_au
       IN camera_zoom = IF fitted < 10 THEN 10 ELSE fitted
  ELSE camera_zoom = 100
\* The view as reset_view leaves it.
DefaultView ==
  /\ camera_rotation_x = 0 /\ camera_rotation_y = 0
  /\ pan_offset_x = 0 /\ pan_offset_y = 0
  /\ orbit_center_body_id = None
  /\ ZoomFitsPlane
\* An update that ran without a focus left every body where the position
\* map of the tick has it.
Unrebased ==
  /\ current_focus_offset_au = Zero3
  /\ \A k \in 1..NBodies :
       celestial_bodies[k].current_pos_au =
         body_positions[celestial_bodies[k].id]

\* C26: reset_view, from any state, leaves pitch and yaw at 0, both pan
\* offsets at 0, no focus body and the zoom fitted to the plane radius, and
\* touches nothing else; a reset of a view that is already the default
\* changes nothing (idempotence); and an update that runs with the focus so
\* cleared leaves a zero focus offset and the positions un-rebased.
C26_ResetViewRestoresDefault ==
  /\ [][ResetView =>
          /\ DefaultView'
          /\ UNCHANGED << api_body_data, celestial_bodies, main_star_id,
                          plane_radius_au, time_vars >>]_vars
  /\ [][ResetView /\ DefaultView => UNCHANGED vars]_vars
  /\ [](UpdateDone /\ orbit_center_body_id = None => Unrebased)

\* C26 witness: the view is the default one between two frames although
\* the last update re-based to a focus body away from the origin and the
\* last draw looked through a tilted camera: a reset has acted on a view
\* that was tilted and focused.
C26_Witness ==
  /\ pc = "events"
  /\ DefaultView
  /\ current_focus_offset_au # Zero3
  /\ \E j \in 1..Len(drawable_objects) :
       drawable_objects[j].z_cam.n % (TrigUnits * TrigUnits) # 0


\* C27 (stated as claimed; the code violates it): the focus id is None or
\* the id of a body of the current collection, whatever events, loads and
\* frames came before; a right click handled after a load of the same
\* batch of events cannot give the focus to a body of the system the load
\* discarded.
C27_FocusIsCurrentBody ==
  orbit_center_body_id = None \/ orbit_center_body_id \in BodyIds


\* C28: whenever the slider is not being dragged the acceleration factor is
\* exactly 0 and the handle is at the centre of the slider, whatever
\* presses, motions and releases came before; the factor is nonzero only
\* while a drag is in progress.
C28_IdleSliderCentred ==
  ~dragging_slider =>
    /\ time_acceleration_factor = 0
    /\ slider_handle_pos = SliderCenterX

\* C28 witness: no drag is in progress, factor 0 and handle at the centre,
\* and the clock stands before its start: a drag to the left of the
\* deadzone ran it backwards and has been released.
C28_Witness ==
  /\ ~dragging_slider
  /\ time_acceleration_factor = 0
  /\ slider_handle_pos = SliderCenterX
  /\ current_time_for_orrery < 0


\* C29: whatever drags, scrolls, resets and loads came before, the pitch
\* of the camera lies within [-89, 89] degrees and the zoom is at least
\* 0.01.
C29_PitchAndZoomBounded ==
  /\ -89 <= camera_rotation_x /\ camera_rotation_x <= 89
  /\ camera_zoom * 100 >= ZoomUnits

\* C29 witness: two drags of 178 pixels down, each turning the camera a
\* quarter turn, have left the pitch at the limit, and the zoom stands at
\* its floor although the plane radius would be fitted by a larger one.
C29_Witness ==
  /\ camera_rotation_y = 180
  /\ camera_rotation_x = -89
  /\ camera_zoom = ZoomFloor
  /\ ~ZoomFitsPlane


\* C30 (stated as claimed; the code violates it): the coordinates draw
\* hands to the drawing calls and records for hit tests, the projected
\* coordinates plus the pan offsets, lie within [COORD_MIN, COORD_MAX] for
\* every point, whatever drags of the middle button came before.
C30_PannedCoordsInRange ==
  call.fn = "draw" /\ call.done =>
    /\ COORD_MIN <= call.result.sx /\ call.result.sx <= COORD_MAX
    /\ COORD_MIN <= call.result.sy /\ call.result.sy <= COORD_MAX

====
